---- MODULE Spec2Model ----
(***************************************************************************)
(* Settings resolution engine of the C/C++ Runner extension                *)
(* (src/src/provider/settingsProvider.ts) together with the helpers it     *)
(* uses from the file utilities (src/out/src/utils.js) and the activation  *)
(* state of the extension (src/unnamed/part_001).                          *)
(*                                                                         *)
(* Strings that the code takes apart (paths, warning flags) are sequences  *)
(* of tokens, so that replaceBackslashes, path.dirname, path.basename,     *)
(* path.join and String.includes are computed and not assumed.  The two    *)
(* separator tokens are "/" and "\\"; every other token is a run of        *)
(* characters without a separator.                                         *)
(*                                                                         *)
(* The build, run and clean tasks (src/out/src/utils.js, from executeTask  *)
(* on) and the folder, language and architecture helpers of utils.js are   *)
(* modelled next to the provider, each over variables of its own; a        *)
(* command line is the sequence of the pieces the code concatenates, the   *)
(* blank " " being a piece of its own.                                     *)
(***************************************************************************)
EXTENDS Integers, Sequences, FiniteSets, TLC

VARIABLES
  operatingSystem,       \* SettingsProvider.operatingSystem
  activeFolder,          \* constructor argument: TRUE when the string is non-empty
  configGlobal,          \* _configGlobal: the C_Cpp_Runner configuration, key -> value
  configGlobalCCpp,      \* _configGlobalCCpp['default']: key -> value
  extensionState,        \* the extension's state store (part_001), or no store
  vscodeDirectory,       \* TRUE when the directory <workspace>/.vscode exists
  settingsFile,          \* .vscode/settings.json on disk
  propertiesFile,        \* .vscode/c_cpp_properties.json on disk
  installedMsvc,         \* what the file system holds for the MSVC tools lookup
  compilerProbe,         \* what getCompilerArchitecture reports for the compilers
  DEFAULT_INCLUDE_PATHS, \* the static array SettingsProvider.DEFAULT_INCLUDE_PATHS
  settings,              \* the public fields of the SettingsProvider instance
  pc,                    \* "new" before the constructor ran, then "ready" or "failed"
  strategy,              \* the branch the constructor took
  op,                    \* the handler that ran last, with what it was called with
  thrown,                \* the error the last handler raised, "none" otherwise
  folderFiles,           \* the listing of the active folder of the tasks
  buildDirs,             \* the build modes whose directory build/<mode>/ exists
  settingsProvider,      \* the provider as the tasks read it
  task,                  \* the Task object: its execution and command line
  executed,              \* what was handed to vscode.tasks.executeTask last
  args,                  \* the arguments and surroundings of a helper call
  returned,              \* what the helper call returned
  searchPath,            \* the commands lookpath finds in the PATH
  workspaceConfig,       \* the C_Cpp_Runner workspace configuration (part_001 _config)
  fields,                \* part_001 SettingsProvider: _cCompiler, _cppCompiler, ...
  checks,                \* the runs of checkCompilers started so far
  writes                 \* the _config.update calls made so far, in order

providerVars == <<operatingSystem, activeFolder, configGlobal, configGlobalCCpp,
                  extensionState, vscodeDirectory, settingsFile, propertiesFile,
                  installedMsvc, compilerProbe, DEFAULT_INCLUDE_PATHS, settings,
                  pc, strategy, op, thrown>>

taskVars == <<folderFiles, buildDirs, settingsProvider, task, executed>>

callVars == <<args, returned>>

detectVars == <<searchPath, workspaceConfig, fields, checks, writes>>

vars == <<providerVars, taskVars, callVars, detectVars>>

\* what no operation of the provider touches
outside == <<taskVars, callVars, detectVars>>

env == <<operatingSystem, activeFolder, configGlobal, configGlobalCCpp,
         installedMsvc, compilerProbe>>

-----------------------------------------------------------------------------
(* Program constants                                                       *)

EXTENSION_NAME == "C_Cpp_Runner"

windows == "windows"
linux == "linux"
mac == "mac"
OperatingSystems == {windows, linux, mac}

x86 == "x86"
x64 == "x64"
undefined == "undefined"

Empty == <<>>                     \* the empty string '' and the empty array []

DEFAULT_C_COMPILER_PATH == <<"gcc">>
DEFAULT_CPP_COMPILER_PATH == <<"g++">>
DEFAULT_DEBUGGER_PATH == <<"gdb">>
DEFAULT_MSVC_BATCH_PATH == Empty
DEFAULT_MSVC_TOOLS_PATH == Empty
DEFAULT_C_STANDARD_UNIX == ""
DEFAULT_CPP_STANDARD == ""
DEFAULT_INCLUDE_SEARCH == <<"*", "**/*">>
DEFAULT_EXCLUDE_SEARCH ==
  <<"**/build", "**/build/**", "**/.*", "**/.*/**", "**/.vscode", "**/.vscode/**">>
DEFAULT_ENABLE_WARNINGS == TRUE
DEFAULT_WARNINGS_AS_ERRORS == FALSE
DEFAULT_WARNINGS_UNIX == << <<"-", "Wall">>, <<"-", "Wextra">>, <<"-", "Wpedantic">> >>
DEFAULT_WARNINGS_MSVC == << <<"/", "W4">> >>
DEFAULT_COMPILER_ARGS == Empty
DEFAULT_LINKER_ARGS == Empty
DEFAULT_USE_MSVC == FALSE

-----------------------------------------------------------------------------
(* Strings                                                                 *)

\* utils.js replaceBackslashes: text.replace(/\\/g, '/')
replaceBackslashes(text) ==
  [i \in DOMAIN text |-> IF text[i] = "\\" THEN "/" ELSE text[i]]

\* String.prototype.includes for a one-token needle
includes(text, token) == \E i \in DOMAIN text : text[i] = token

\* String.prototype.toLowerCase, token by token
toLowerCase(text) ==
  [i \in DOMAIN text |->
     CASE text[i] = "Clang" -> "clang"
       [] text[i] = "CMakeLists" -> "cmakelists"
       [] text[i] = "GCC" -> "gcc"
       [] OTHER -> text[i]]

\* a path separator of the path module: '/' everywhere, '\' on win32 only
isPathSeparator(os, token) == token = "/" \/ (os = windows /\ token = "\\")

lastSeparator(os, p) ==
  LET S == {i \in DOMAIN p : isPathSeparator(os, p[i])}
  IN IF S = {} THEN 0 ELSE CHOOSE i \in S : \A j \in S : j <= i

\* path.basename(p)
basename(os, p) == SubSeq(p, lastSeparator(os, p) + 1, Len(p))

\* path.dirname(p): '.' without a separator, the root kept with its separator
dirname(os, p) ==
  LET k == lastSeparator(os, p)
  IN IF k = 0 THEN <<".">>
     ELSE IF k = 1 THEN SubSeq(p, 1, 1)
     ELSE IF os = windows /\ k = 2 /\ p[1] = "C:" THEN SubSeq(p, 1, 2)
     ELSE SubSeq(p, 1, k - 1)

\* path.normalize as far as separators go: win32 turns '/' into '\'
normalizeSeparators(os, p) ==
  [i \in DOMAIN p |-> IF os = windows /\ p[i] = "/" THEN "\\" ELSE p[i]]

pathSep(os) == IF os = windows THEN "\\" ELSE "/"

\* path.join(a, b): empty segments are skipped, '.' in front is dropped
join(os, a, b) ==
  IF a = Empty \/ a = <<".">> THEN normalizeSeparators(os, b)
  ELSE IF b = Empty THEN normalizeSeparators(os, a)
  ELSE IF isPathSeparator(os, a[Len(a)])
       THEN normalizeSeparators(os, a \o b)
       ELSE normalizeSeparators(os, a \o <<pathSep(os)>> \o b)

-----------------------------------------------------------------------------
(* Documents on disk                                                       *)

\* A JSON object is a function from its keys to their values.  A key of the
\* settings document is the pair <<namespace, name>>, written
\* "<namespace>.<name>" on disk; a key of a configuration of the properties
\* document is <<name>>.
NoEntries == <<>>

Absent == [kind |-> "absent", json |-> NoEntries]
Malformed == [kind |-> "malformed", json |-> NoEntries]
Json(doc) == [kind |-> "json", json |-> doc]

\* utils.js pathExists: fs.accessSync succeeds
pathExists(file) == file.kind # "absent"

\* utils.js readJsonFile: undefined when the file cannot be read or parsed
readJsonFile(file) ==
  IF file.kind = "json" THEN [defined |-> TRUE, value |-> file.json]
  ELSE [defined |-> FALSE, value |-> NoEntries]

\* fileUtils localSettingExist: the key is present in the parsed document
localSettingExist(key, settingsJson) == key \in DOMAIN settingsJson

\* `${EXTENSION_NAME}.${name}`
extensionKey(name) == <<EXTENSION_NAME, name>>

MandatoryKeys ==
  {extensionKey("cCompilerPath"), extensionKey("cppCompilerPath"),
   extensionKey("debuggerPath")}

\* SettingsProvider.commandsAlreadyStored
commandsAlreadyStored(file) ==
  IF pathExists(file)
  THEN LET settingsJson == readJsonFile(file)
       IN IF ~settingsJson.defined THEN FALSE
          ELSE /\ localSettingExist(extensionKey("cCompilerPath"), settingsJson.value)
               /\ localSettingExist(extensionKey("cppCompilerPath"), settingsJson.value)
               /\ localSettingExist(extensionKey("debuggerPath"), settingsJson.value)
  ELSE FALSE

\* SettingsProvider.updateCheck: TRUE when the settings are missing
updateCheck(file) ==
  IF ~pathExists(file) THEN TRUE
  ELSE IF ~commandsAlreadyStored(file) THEN TRUE
  ELSE FALSE

\* SettingsProvider.localFileExist: TRUE when the file is MISSING
localFileExist(file) == ~pathExists(file)

-----------------------------------------------------------------------------
(* Value lookup                                                            *)

\* SettingsProvider.getGlobalSettingsValue
getGlobalSettingsValue(name, defaultValue) ==
  IF name \in DOMAIN configGlobal THEN configGlobal[name] ELSE defaultValue

\* SettingsProvider.getSettingsValue
getSettingsValue(settingsLocal, name, defaultValue, isExtensionSetting) ==
  LET settingName == IF isExtensionSetting THEN extensionKey(name) ELSE <<name>>
  IN IF settingsLocal.defined /\ settingName \in DOMAIN settingsLocal.value
     THEN settingsLocal.value[settingName]
     ELSE IF name \in DOMAIN configGlobal THEN configGlobal[name]
     ELSE defaultValue

\* SettingsProvider.getPropertiesValue
getPropertiesValue(properties, name, defaultValue) ==
  IF properties.defined /\ <<name>> \in DOMAIN properties.value
  THEN properties.value[<<name>>]
  ELSE defaultValue

-----------------------------------------------------------------------------
(* MSVC tools path                                                         *)

\* text.split(token)[0]: the text in front of the first occurrence
splitFirst(text, token) ==
  LET S == {i \in DOMAIN text : text[i] = token}
  IN IF S = {} THEN text
     ELSE SubSeq(text, 1, (CHOOSE i \in S : \A j \in S : i <= j) - 1)

\* the last element of text.split(token)
splitLast(text, token) ==
  LET S == {i \in DOMAIN text : text[i] = token}
  IN IF S = {} THEN text
     ELSE SubSeq(text, (CHOOSE i \in S : \A j \in S : j <= i) + 1, Len(text))

\* fileUtils foldersInDir: the folders of a directory, none when it is missing
foldersInDir(dir) ==
  IF dir = installedMsvc.root THEN installedMsvc.versions ELSE <<>>

\* SettingsProvider.searchMsvcToolsPath
searchMsvcToolsPath(this) ==
  LET msvcBasePath0 == splitFirst(this.msvcBatchPath, "VC")
      msvcBasePath == msvcBasePath0 \o <<"VC", "/", "Tools", "/", "MSVC">>
      installed_versions == foldersInDir(msvcBasePath)
      newst_version_path == installed_versions[Len(installed_versions)]
      versionNumber == splitLast(newst_version_path, "\\")
      architecturePath ==
        IF this.architecure = x64 \/ this.architecure = undefined
        THEN <<"bin", "/", "Hostx64", "/", "x64">>
        ELSE <<"bin", "/", "Hostx86", "/", "x86">>
  IN IF msvcBasePath0 = Empty THEN this
     ELSE IF Len(installed_versions) = 0 THEN this
     ELSE IF newst_version_path = Empty THEN this
     ELSE IF versionNumber = Empty THEN this
     ELSE IF architecturePath \notin installedMsvc.relative THEN this
     ELSE [this EXCEPT !.msvcToolsPath =
             join(operatingSystem,
                  join(operatingSystem, msvcBasePath, versionNumber),
                  architecturePath)]

-----------------------------------------------------------------------------
(* Loading                                                                 *)

\* warnings.some((warning) => warning.includes('/'))
someMsvcWarning(warnings) == \E i \in DOMAIN warnings : includes(warnings[i], "/")

\* The operators below take the fields of the instance (this) and the static
\* default include-path array (def) and return both as the code leaves them:
\* this.includePaths may BE the static array, and push() then changes both.
\* An array parsed from a document or handed out by the configuration is a
\* fresh one.

\* SettingsProvider.loadLocalSettings
loadLocalSettings(this, def, file) ==
  LET settingsLocal == readJsonFile(file)
      t1 == [this EXCEPT
               !.cCompilerPath =
                 getSettingsValue(settingsLocal, "cCompilerPath", DEFAULT_C_COMPILER_PATH, TRUE),
               !.cppCompilerPath =
                 getSettingsValue(settingsLocal, "cppCompilerPath", DEFAULT_CPP_COMPILER_PATH, TRUE),
               !.debuggerPath =
                 getSettingsValue(settingsLocal, "debuggerPath", DEFAULT_DEBUGGER_PATH, TRUE),
               !.msvcBatchPath =
                 getSettingsValue(settingsLocal, "msvcBatchPath", DEFAULT_MSVC_BATCH_PATH, TRUE),
               !.useMsvc =
                 getSettingsValue(settingsLocal, "useMsvc", DEFAULT_USE_MSVC, TRUE)]
      t2 == IF t1.useMsvc THEN searchMsvcToolsPath(t1) ELSE t1
      warnings == getSettingsValue(settingsLocal, "warnings", DEFAULT_WARNINGS_UNIX, TRUE)
      msvcWarnings == someMsvcWarning(warnings)
      includeIsStatic ==
        /\ ~(settingsLocal.defined /\ extensionKey("includePaths") \in DOMAIN settingsLocal.value)
        /\ "includePaths" \notin DOMAIN configGlobal
      includePaths == getSettingsValue(settingsLocal, "includePaths", def, TRUE)
      globalIncludePath == getSettingsValue(configGlobalCCpp, "includePath", Empty, FALSE)
      pushed == includePaths \o globalIncludePath
      t3 == [t2 EXCEPT
               !.enableWarnings =
                 getSettingsValue(settingsLocal, "enableWarnings", DEFAULT_ENABLE_WARNINGS, TRUE),
               !.warnings =
                 IF t2.useMsvc /\ ~msvcWarnings THEN DEFAULT_WARNINGS_MSVC
                 ELSE IF ~t2.useMsvc /\ msvcWarnings THEN DEFAULT_WARNINGS_UNIX
                 ELSE warnings,
               !.warningsAsError =
                 getSettingsValue(settingsLocal, "warningsAsError", DEFAULT_WARNINGS_AS_ERRORS, TRUE),
               !.cStandard =
                 getSettingsValue(settingsLocal, "cStandard", DEFAULT_C_STANDARD_UNIX, TRUE),
               !.cppStandard =
                 getSettingsValue(settingsLocal, "cppStandard", DEFAULT_CPP_STANDARD, TRUE),
               !.compilerArgs =
                 getSettingsValue(settingsLocal, "compilerArgs", DEFAULT_COMPILER_ARGS, TRUE),
               !.linkerArgs =
                 getSettingsValue(settingsLocal, "linkerArgs", DEFAULT_LINKER_ARGS, TRUE),
               !.includePaths = pushed,
               !.includeSearch =
                 getSettingsValue(settingsLocal, "includeSearch", DEFAULT_INCLUDE_SEARCH, TRUE),
               !.excludeSearch =
                 getSettingsValue(settingsLocal, "excludeSearch", DEFAULT_EXCLUDE_SEARCH, TRUE)]
  IN [this |-> t3, def |-> IF includeIsStatic THEN pushed ELSE def]

\* readJsonFile(propertiesPath).configurations[0] raises a TypeError when the
\* document is undefined or has no configurations
propertiesThrow(file) ==
  LET json == readJsonFile(file)
  IN ~json.defined \/ "configurations" \notin DOMAIN json.value

firstConfiguration(file) ==
  LET configurations == readJsonFile(file).value["configurations"]
  IN IF Len(configurations) = 0 THEN [defined |-> FALSE, value |-> NoEntries]
     ELSE [defined |-> TRUE, value |-> configurations[1]]

\* the '${default}' placeholder of the properties document
DefaultPlaceholder == "${default}"

\* SettingsProvider.getSettingsFromProperties, for a document that does not throw
getSettingsFromProperties(this, def, file) ==
  LET properties == firstConfiguration(file)
      cCompilerPath == getPropertiesValue(properties, "compilerPath", DEFAULT_C_COMPILER_PATH)
      rootDirCompiler == dirname(operatingSystem, cCompilerPath)
      programSuffix == IF operatingSystem = windows THEN <<".exe">> ELSE Empty
      isClang == includes(toLowerCase(basename(operatingSystem, cCompilerPath)), "clang")
      cppCompilerPath == (IF isClang THEN <<"clang++">> ELSE <<"g++">>) \o programSuffix
      debuggerPath == (IF isClang THEN <<"lldb">> ELSE <<"gdb">>) \o programSuffix
      cStandard == getPropertiesValue(properties, "cStandard", DEFAULT_C_STANDARD_UNIX)
      cppStandard == getPropertiesValue(properties, "cppStandard", DEFAULT_CPP_STANDARD)
      includePaths == getPropertiesValue(properties, "includePath", def)
  IN IF ~properties.defined THEN this
     ELSE [this EXCEPT
             !.cCompilerPath = cCompilerPath,
             !.cppCompilerPath = join(operatingSystem, rootDirCompiler, cppCompilerPath),
             !.debuggerPath = join(operatingSystem, rootDirCompiler, debuggerPath),
             !.cStandard =
               IF cStandard # DefaultPlaceholder THEN cStandard ELSE DEFAULT_C_STANDARD_UNIX,
             !.cppStandard =
               IF cppStandard # DefaultPlaceholder THEN cppStandard ELSE DEFAULT_CPP_STANDARD,
             !.includePaths = IF Len(includePaths) # 0 THEN includePaths ELSE def,
             !.compilerArgs = DEFAULT_COMPILER_ARGS,
             !.linkerArgs = DEFAULT_LINKER_ARGS,
             !.warnings = DEFAULT_WARNINGS_UNIX,
             !.enableWarnings = DEFAULT_ENABLE_WARNINGS,
             !.warningsAsError = DEFAULT_WARNINGS_AS_ERRORS,
             !.excludeSearch = DEFAULT_EXCLUDE_SEARCH]

\* systemUtils getCompilerArchitecture: what running the compiler reports
getCompilerArchitecture(compiler) == compilerProbe

\* SettingsProvider.getArchitecture
getArchitecture(this) ==
  IF this.useMsvc
  THEN [this EXCEPT !.architecure = x64, !.isCygwin = FALSE]
  ELSE IF this.cCompilerPath # Empty
  THEN [this EXCEPT
          !.architecure = getCompilerArchitecture(this.cCompilerPath).architecure,
          !.isCygwin = getCompilerArchitecture(this.cCompilerPath).isCygwin]
  ELSE IF this.cppCompilerPath # Empty
  THEN [this EXCEPT
          !.architecure = getCompilerArchitecture(this.cppCompilerPath).architecure,
          !.isCygwin = getCompilerArchitecture(this.cppCompilerPath).isCygwin]
  ELSE [this EXCEPT !.architecure = x64, !.isCygwin = FALSE]

\* SettingsProvider.loadGlobalSettings
loadGlobalSettings(this, def) ==
  [this EXCEPT
     !.cCompilerPath = getGlobalSettingsValue("cCompilerPath", DEFAULT_C_COMPILER_PATH),
     !.cppCompilerPath = getGlobalSettingsValue("cppCompilerPath", DEFAULT_CPP_COMPILER_PATH),
     !.debuggerPath = getGlobalSettingsValue("debuggerPath", DEFAULT_DEBUGGER_PATH),
     !.msvcBatchPath = getGlobalSettingsValue("msvcBatchPath", DEFAULT_MSVC_BATCH_PATH),
     !.msvcToolsPath = getGlobalSettingsValue("msvcToolsPath", DEFAULT_MSVC_TOOLS_PATH),
     !.enableWarnings = getGlobalSettingsValue("enableWarnings", DEFAULT_ENABLE_WARNINGS),
     !.warnings = getGlobalSettingsValue("warnings", DEFAULT_WARNINGS_UNIX),
     !.warningsAsError = getGlobalSettingsValue("warningsAsError", DEFAULT_WARNINGS_AS_ERRORS),
     !.cStandard = getGlobalSettingsValue("cStandard", DEFAULT_C_STANDARD_UNIX),
     !.cppStandard = getGlobalSettingsValue("cppStandard", DEFAULT_CPP_STANDARD),
     !.compilerArgs = getGlobalSettingsValue("compilerArgs", DEFAULT_COMPILER_ARGS),
     !.linkerArgs = getGlobalSettingsValue("linkerArgs", DEFAULT_LINKER_ARGS),
     !.includePaths = getGlobalSettingsValue("includePaths", def),
     !.excludeSearch = getGlobalSettingsValue("excludeSearch", DEFAULT_EXCLUDE_SEARCH)]

-----------------------------------------------------------------------------
(* Persisting                                                              *)

\* utils.js writeJsonFile after JSON.stringify: strings, booleans and arrays
\* of strings come back from JSON.parse as they went in
writeJsonFile(jsonContent) == Json(jsonContent)

\* update without the merge: the document written holds the one key alone
update_overwrite(file, key, value) ==
  writeJsonFile([k \in {extensionKey(key)} |-> value])

\* SettingsProvider.update: read, merge one key, write
update(file, key, value) ==
  LET settingsJson == readJsonFile(file)
      old == IF settingsJson.defined THEN settingsJson.value ELSE NoEntries
      settingName == extensionKey(key)
  IN writeJsonFile([k \in DOMAIN old \cup {settingName} |->
                      IF k = settingName THEN value ELSE old[k]])

\* updateBasedOnEnv without the Windows branch: the value is written as held
updateBasedOnEnv_raw(file, settingsName, settingsValue) ==
  update(file, settingsName, settingsValue)

\* SettingsProvider.updateBasedOnEnv
updateBasedOnEnv(file, settingsName, settingsValue) ==
  IF operatingSystem = windows
  THEN update(file, settingsName, replaceBackslashes(settingsValue))
  ELSE update(file, settingsName, settingsValue)

\* SettingsProvider.storeSettings: the document after the fourteen updates
storeSettings(this, file) ==
  LET f1 == updateBasedOnEnv(file, "cCompilerPath", this.cCompilerPath)
      f2 == updateBasedOnEnv(f1, "cppCompilerPath", this.cppCompilerPath)
      f3 == updateBasedOnEnv(f2, "debuggerPath", this.debuggerPath)
      f4 == update(f3, "cStandard", this.cStandard)
      f5 == update(f4, "cppStandard", this.cppStandard)
      f6 == update(f5, "msvcBatchPath", this.msvcBatchPath)
      f7 == update(f6, "warnings", this.warnings)
      f8 == update(f7, "enableWarnings", this.enableWarnings)
      f9 == update(f8, "warningsAsError", this.warningsAsError)
      f10 == update(f9, "compilerArgs", this.compilerArgs)
      f11 == update(f10, "linkerArgs", this.linkerArgs)
      f12 == update(f11, "includePaths", this.includePaths)
      f13 == update(f12, "includeSearch", this.includeSearch)
  IN update(f13, "excludeSearch", this.excludeSearch)

-----------------------------------------------------------------------------
(* Handlers as functions of the state they read                            *)

\* SettingsProvider.writeFileData: loadLocalSettings, then storeSettings.
\* fs.writeFileSync raises ENOENT when the .vscode directory does not exist,
\* and nothing of storeSettings has been written then.
writeFileData(this, def, file, directory) ==
  LET loaded == loadLocalSettings(this, def, file)
  IN [this |-> loaded.this,
      def |-> loaded.def,
      file |-> IF directory THEN storeSettings(loaded.this, file) ELSE file,
      thrown |-> IF directory THEN "none" ELSE "ENOENT"]

\* FileProvider.createFileData: the persisting step of the constructor: it
\* makes the .vscode directory when it is missing (utils.js mkdirRecursive)
\* and runs the provider's writeFileData
createFileData(this, def, file) == writeFileData(this, def, file, TRUE)

\* SettingsProvider.reset: loadGlobalSettings, then storeSettings
reset(this, def, file, directory) ==
  LET loaded == loadGlobalSettings(this, def)
  IN [this |-> loaded,
      def |-> def,
      file |-> IF directory THEN storeSettings(loaded, file) ELSE file,
      thrown |-> IF directory THEN "none" ELSE "ENOENT"]

\* vscodeUtils getActivationState: the stored flag, false without a store
getActivationState ==
  IF extensionState.defined
  THEN /\ "activatedExtension" \in DOMAIN extensionState.value
       /\ extensionState.value["activatedExtension"]
  ELSE FALSE

-----------------------------------------------------------------------------
(* Bounds and inputs                                                       *)

\* include-path lists are not loaded again once they are this long
MaxIncludePaths == 2

UnixClang == <<"/", "usr", "/", "bin", "/", "Clang">>
UnixClangpp == <<"/", "usr", "/", "bin", "/", "clang++">>
UnixLldb == <<"/", "usr", "/", "bin", "/", "lldb">>
WinGcc == <<"C:", "\\", "mingw", "\\", "gcc.exe">>
WinGpp == <<"C:", "\\", "mingw", "\\", "g++.exe">>
WinGdb == <<"C:", "\\", "mingw", "\\", "gdb.exe">>
MsvcBatch == <<"C:", "/", "VS", "/", "VC", "/", "Auxiliary", "/", "vcvarsall.bat">>
MsvcRoot == <<"C:", "/", "VS", "/", "VC", "/", "Tools", "/", "MSVC">>
MsvcVersions == << <<"C:", "\\", "VS", "\\", "14.16">>, <<"C:", "\\", "VS", "\\", "14.29">> >>

WarningsMsvc == << <<"/", "W3">> >>
WarningsUnix == << <<"-", "Wall">> >>
WarningsMixed == << <<"/", "W4">>, <<"-", "Wall">> >>

ForeignKey == <<"cmake", "sourceDirectory">>

\* the settings documents a user or another tool may have left on disk
DocEmpty == NoEntries
DocIncomplete ==
  (extensionKey("cCompilerPath") :> UnixClang) @@ (ForeignKey :> "src")
DocUnix ==
  (extensionKey("cCompilerPath") :> UnixClang)
  @@ (extensionKey("cppCompilerPath") :> UnixClangpp)
  @@ (extensionKey("debuggerPath") :> UnixLldb)
  @@ (extensionKey("warnings") :> WarningsMsvc)
  @@ (extensionKey("includePaths") :> <<"inc">>)
  @@ (extensionKey("cStandard") :> "c99")
  @@ (ForeignKey :> "src")
DocWindows ==
  (extensionKey("cCompilerPath") :> WinGcc)
  @@ (extensionKey("cppCompilerPath") :> WinGpp)
  @@ (extensionKey("debuggerPath") :> WinGdb)
  @@ (extensionKey("useMsvc") :> TRUE)
  @@ (extensionKey("msvcBatchPath") :> MsvcBatch)
  @@ (extensionKey("warnings") :> WarningsMixed)
  @@ (extensionKey("includeSearch") :> <<"src/*">>)
  @@ (extensionKey("compilerArgs") :> <<"-pthread">>)
SettingsDocs == {DocEmpty, DocIncomplete, DocUnix, DocWindows}

\* the C_Cpp_Runner configuration of the global scope
GlobalNone == NoEntries
GlobalPaths ==
  ("cCompilerPath" :> WinGcc)
  @@ ("warnings" :> WarningsUnix)
  @@ ("includePaths" :> <<"ginc">>)
  @@ ("cppStandard" :> "c++17")
GlobalMsvc ==
  ("useMsvc" :> TRUE)
  @@ ("msvcBatchPath" :> MsvcBatch)
  @@ ("msvcToolsPath" :> <<"tools">>)
  @@ ("includeSearch" :> <<"lib/*">>)
GlobalConfigs == {GlobalNone, GlobalPaths, GlobalMsvc}

\* C_Cpp.default of the global scope
CCppNone == [defined |-> FALSE, value |-> NoEntries]
CCppInclude == [defined |-> TRUE, value |-> (<<"includePath">> :> <<"sys">>)]
CCppConfigs == {CCppNone, CCppInclude}

\* c_cpp_properties.json
PropertiesNoConfigurations == Json(NoEntries)
PropertiesEmpty == Json("configurations" :> <<>>)
PropertiesGcc ==
  Json("configurations" :>
         << (<<"compilerPath">> :> WinGcc)
            @@ (<<"cStandard">> :> "c11")
            @@ (<<"cppStandard">> :> DefaultPlaceholder)
            @@ (<<"includePath">> :> <<"pinc">>) >>)
PropertiesClang ==
  Json("configurations" :> << (<<"compilerPath">> :> UnixClang) >>)
PropertiesFiles ==
  {Absent, Malformed, PropertiesNoConfigurations, PropertiesEmpty,
   PropertiesGcc, PropertiesClang}

\* the tool directories of the newest version, as path.join writes them
MsvcToolsX64 ==
  <<"C:", "\\", "VS", "\\", "VC", "\\", "Tools", "\\", "MSVC", "\\", "14.29",
    "\\", "bin", "\\", "Hostx64", "\\", "x64">>
MsvcToolsX86 ==
  <<"C:", "\\", "VS", "\\", "VC", "\\", "Tools", "\\", "MSVC", "\\", "14.29",
    "\\", "bin", "\\", "Hostx86", "\\", "x86">>

\* root: the version directory; versions: its listing; tools: the tool
\* directories that exist; relative: the relative paths that exist from the
\* working directory of the process
MsvcMissing == [root |-> MsvcRoot, versions |-> <<>>, relative |-> {}, tools |-> {}]
MsvcInstalled ==
  [root |-> MsvcRoot, versions |-> MsvcVersions,
   relative |-> {<<"bin", "/", "Hostx64", "/", "x64">>},
   tools |-> {MsvcToolsX64}]
\* a complete installation, the process running in some other directory
MsvcStandard ==
  [root |-> MsvcRoot, versions |-> MsvcVersions, relative |-> {},
   tools |-> {MsvcToolsX64, MsvcToolsX86}]

Probe64 == [architecure |-> x64, isCygwin |-> FALSE]
Probe86 == [architecure |-> x86, isCygwin |-> TRUE]

NoStore == [defined |-> FALSE, value |-> NoEntries]
Store(value) == [defined |-> TRUE, value |-> value]

\* the field initialisers of the class
InitialSettings ==
  [cCompilerPath |-> DEFAULT_C_COMPILER_PATH,
   cppCompilerPath |-> DEFAULT_CPP_COMPILER_PATH,
   debuggerPath |-> DEFAULT_DEBUGGER_PATH,
   msvcBatchPath |-> DEFAULT_MSVC_BATCH_PATH,
   msvcToolsPath |-> DEFAULT_MSVC_TOOLS_PATH,
   useMsvc |-> DEFAULT_USE_MSVC,
   cStandard |-> DEFAULT_C_STANDARD_UNIX,
   cppStandard |-> DEFAULT_CPP_STANDARD,
   compilerArgs |-> DEFAULT_COMPILER_ARGS,
   linkerArgs |-> DEFAULT_LINKER_ARGS,
   includePaths |-> Empty,
   includeSearch |-> DEFAULT_INCLUDE_SEARCH,
   excludeSearch |-> DEFAULT_EXCLUDE_SEARCH,
   enableWarnings |-> DEFAULT_ENABLE_WARNINGS,
   warningsAsError |-> DEFAULT_WARNINGS_AS_ERRORS,
   warnings |-> DEFAULT_WARNINGS_UNIX,
   architecure |-> undefined,
   isCygwin |-> FALSE]

NoOp == [name |-> "none", key |-> "", value |-> ""]
Op(name) == [name |-> name, key |-> "", value |-> ""]
\* The machine, the configuration and the two documents the constructor finds.
\* The combinations are thinned where a value cannot matter: the content of
\* the properties document is read only when settings.json is absent.
\* no task has been set up
TasksIdle ==
  /\ folderFiles = <<>>
  /\ buildDirs = {}
  /\ settingsProvider = <<>>
  /\ task = <<>>
  /\ executed = <<>>

\* no helper is being called
NoCall ==
  /\ args = <<>>
  /\ returned = <<>>

\* the provider of part_001 is not in use
DetectIdle ==
  /\ searchPath = {}
  /\ workspaceConfig = <<>>
  /\ fields = <<>>
  /\ checks = <<>>
  /\ writes = <<>>

Init ==
  /\ operatingSystem \in {windows, linux}
  /\ activeFolder \in BOOLEAN
  /\ configGlobal \in GlobalConfigs
  /\ configGlobalCCpp \in CCppConfigs
  /\ extensionState \in {NoStore, Store(NoEntries)}
  /\ vscodeDirectory \in BOOLEAN
  /\ settingsFile \in {Absent, Malformed} \cup {Json(d) : d \in SettingsDocs}
  /\ propertiesFile \in PropertiesFiles
  /\ ~vscodeDirectory => (settingsFile = Absent /\ propertiesFile = Absent)
  /\ settingsFile # Absent => propertiesFile \in {Absent, PropertiesGcc}
  /\ propertiesFile \in {PropertiesEmpty, PropertiesClang} =>
       (configGlobal = GlobalNone /\ configGlobalCCpp = CCppNone)
  /\ ~activeFolder =>
       /\ configGlobal = GlobalNone /\ configGlobalCCpp = CCppNone
       /\ operatingSystem = linux /\ extensionState = NoStore
       /\ settingsFile \in {Absent, Json(DocUnix)}
  /\ extensionState = NoStore => (configGlobal = GlobalNone /\ operatingSystem = linux)
  /\ configGlobalCCpp = CCppInclude => configGlobal # GlobalMsvc
  /\ configGlobalCCpp = CCppNone => configGlobal # GlobalPaths
  /\ installedMsvc = MsvcInstalled
  /\ compilerProbe = (IF operatingSystem = windows THEN Probe86 ELSE Probe64)
  /\ DEFAULT_INCLUDE_PATHS = Empty
  /\ settings = InitialSettings
  /\ pc = "new"
  /\ strategy = "none"
  /\ op = NoOp
  /\ thrown = "none"
  /\ TasksIdle
  /\ NoCall
  /\ DetectIdle

-----------------------------------------------------------------------------
(* Operations                                                              *)

storedIncludePaths(file) ==
  IF file.kind = "json" /\ extensionKey("includePaths") \in DOMAIN file.json
  THEN file.json[extensionKey("includePaths")]
  ELSE Empty

\* a further load keeps every include-path list within MaxIncludePaths
Bounded(file) ==
  /\ Len(storedIncludePaths(file)) < MaxIncludePaths
  /\ Len(DEFAULT_INCLUDE_PATHS) < MaxIncludePaths

\* SettingsProvider.constructor
constructor ==
  /\ pc = "new"
  /\ LET settingsFileMissing == localFileExist(settingsFile)
         settingsMissing == updateCheck(settingsFile)
         propertiesFileMissing == localFileExist(propertiesFile)
         allInfoMissing == settingsMissing /\ propertiesFileMissing /\ activeFolder
         onlySettingsMissing == settingsFileMissing /\ ~propertiesFileMissing /\ activeFolder
     IN IF allInfoMissing
        THEN LET written == createFileData(loadGlobalSettings(settings, DEFAULT_INCLUDE_PATHS),
                                           DEFAULT_INCLUDE_PATHS, settingsFile)
             IN /\ strategy' = "cold"
                /\ settings' = getArchitecture(written.this)
                /\ DEFAULT_INCLUDE_PATHS' = written.def
                /\ settingsFile' = written.file
                /\ vscodeDirectory' = TRUE
                /\ pc' = "ready"
                /\ thrown' = "none"
        ELSE IF onlySettingsMissing
        THEN IF propertiesThrow(propertiesFile)
             THEN /\ strategy' = "partial"
                  /\ pc' = "failed"
                  /\ thrown' = "TypeError"
                  /\ UNCHANGED <<settings, DEFAULT_INCLUDE_PATHS, settingsFile, vscodeDirectory>>
             ELSE LET derived == getSettingsFromProperties(settings, DEFAULT_INCLUDE_PATHS,
                                                           propertiesFile)
                      written == createFileData(derived, DEFAULT_INCLUDE_PATHS, settingsFile)
                  IN /\ strategy' = "partial"
                     /\ settings' = getArchitecture(written.this)
                     /\ DEFAULT_INCLUDE_PATHS' = written.def
                     /\ settingsFile' = written.file
                     /\ vscodeDirectory' = TRUE
                     /\ pc' = "ready"
                     /\ thrown' = "none"
        ELSE IF activeFolder
        THEN LET loaded == loadLocalSettings(settings, DEFAULT_INCLUDE_PATHS, settingsFile)
             IN /\ strategy' = "warm"
                /\ settings' = getArchitecture(loaded.this)
                /\ DEFAULT_INCLUDE_PATHS' = loaded.def
                /\ pc' = "ready"
                /\ thrown' = "none"
                /\ UNCHANGED <<settingsFile, vscodeDirectory>>
        ELSE /\ strategy' = "none"
             /\ pc' = "ready"
             /\ thrown' = "none"
             /\ UNCHANGED <<settings, DEFAULT_INCLUDE_PATHS, settingsFile, vscodeDirectory>>
  /\ op' = Op("constructor")
  /\ UNCHANGED <<outside, env, extensionState, propertiesFile>>

\* what the user, or another tool, may leave in .vscode/settings.json
UserFiles == {Malformed, Json(DocUnix), Json(DocWindows)}

\* SettingsProvider.changeCallback, run by the file watcher once settings.json
\* has changed on disk: the event is one of this provider's own writes (the
\* file read is the current one) or a rewrite by the user (file)
changeCallback(file) ==
  /\ pc = "ready"
  /\ file = settingsFile \/ file \in UserFiles
  /\ Bounded(file)
  /\ LET loaded == loadLocalSettings(settings, DEFAULT_INCLUDE_PATHS, file)
     IN /\ settings' = loaded.this
        /\ DEFAULT_INCLUDE_PATHS' = loaded.def
  /\ settingsFile' = file
  /\ vscodeDirectory' = (vscodeDirectory \/ file # settingsFile)
  /\ op' = Op("changeCallback")
  /\ thrown' = "none"
  /\ UNCHANGED <<outside, env, extensionState, propertiesFile, pc, strategy>>

\* the public SettingsProvider.writeFileData, called on its own
writeFileDataCall ==
  /\ pc = "ready"
  /\ Bounded(settingsFile)
  /\ LET written == writeFileData(settings, DEFAULT_INCLUDE_PATHS, settingsFile,
                                  vscodeDirectory)
     IN /\ settings' = written.this
        /\ DEFAULT_INCLUDE_PATHS' = written.def
        /\ settingsFile' = written.file
        /\ thrown' = written.thrown
  /\ op' = Op("writeFileData")
  /\ UNCHANGED <<outside, env, extensionState, vscodeDirectory, propertiesFile, pc, strategy>>

\* what a deletion under .vscode may have removed
Deleted == {"settings.json", "c_cpp_properties.json", ".vscode"}

\* SettingsProvider.deleteCallback, run by the file watcher once something
\* under .vscode has been deleted
deleteCallback(deleted) ==
  /\ pc = "ready"
  /\ vscodeDirectory
  /\ deleted = "settings.json" => settingsFile # Absent
  /\ deleted = "c_cpp_properties.json" => propertiesFile # Absent
  /\ LET directory == deleted # ".vscode"
         file == IF deleted \in {"settings.json", ".vscode"} THEN Absent ELSE settingsFile
         extensionIsActive == getActivationState
         written == writeFileData(settings, DEFAULT_INCLUDE_PATHS, file, directory)
     IN /\ Bounded(file)
        /\ vscodeDirectory' = directory
        /\ propertiesFile' =
             IF deleted \in {"c_cpp_properties.json", ".vscode"} THEN Absent
             ELSE propertiesFile
        /\ IF extensionIsActive
           THEN /\ settings' = written.this
                /\ DEFAULT_INCLUDE_PATHS' = written.def
                /\ settingsFile' = written.file
                /\ thrown' = written.thrown
           ELSE /\ settingsFile' = file
                /\ thrown' = "none"
                /\ UNCHANGED <<settings, DEFAULT_INCLUDE_PATHS>>
  /\ op' = [name |-> "deleteCallback", key |-> deleted, value |-> ""]
  /\ UNCHANGED <<outside, env, extensionState, pc, strategy>>

\* SettingsProvider.reset
resetCall ==
  /\ pc = "ready"
  /\ LET written == reset(settings, DEFAULT_INCLUDE_PATHS, settingsFile, vscodeDirectory)
     IN /\ settings' = written.this
        /\ DEFAULT_INCLUDE_PATHS' = written.def
        /\ settingsFile' = written.file
        /\ thrown' = written.thrown
  /\ op' = Op("reset")
  /\ UNCHANGED <<outside, env, extensionState, vscodeDirectory, propertiesFile, pc, strategy>>

\* the keys and values the public SettingsProvider.update is called with
UpdateKeys == {"cStandard"}
UpdateValues(key) == {"c17"}

\* the public SettingsProvider.update, called on its own
updateCall(key, value) ==
  /\ pc = "ready"
  /\ IF vscodeDirectory
     THEN /\ settingsFile' = update(settingsFile, key, value)
          /\ thrown' = "none"
     ELSE /\ thrown' = "ENOENT"
          /\ UNCHANGED settingsFile
  /\ op' = [name |-> "update", key |-> key, value |-> value]
  /\ UNCHANGED <<outside, env, extensionState, vscodeDirectory, propertiesFile,
                 DEFAULT_INCLUDE_PATHS, settings, pc, strategy>>

\* vscodeUtils updateActivationState: extensionState?.update(...)
updateActivationState(newState) ==
  /\ extensionState.defined
  /\ extensionState' =
       Store([k \in DOMAIN extensionState.value \cup {"activatedExtension"} |-> newState])
  /\ extensionState' # extensionState
  /\ UNCHANGED <<outside, env, vscodeDirectory, settingsFile, propertiesFile,
                 DEFAULT_INCLUDE_PATHS, settings, pc, strategy, op, thrown>>

Next ==
  \/ constructor
  \/ \E file \in {settingsFile} \cup UserFiles : changeCallback(file)
  \/ writeFileDataCall
  \/ \E deleted \in Deleted : deleteCallback(deleted)
  \/ resetCall
  \/ \E key \in UpdateKeys : \E value \in UpdateValues(key) : updateCall(key, value)
  \/ \E newState \in BOOLEAN : updateActivationState(newState)

Spec == Init /\ [][Next]_vars

\* the provider on Windows, over the MSVC installations the lookup may meet
InitMsvc ==
  /\ operatingSystem = windows
  /\ activeFolder = TRUE
  /\ configGlobal \in {GlobalNone, GlobalMsvc}
  /\ configGlobalCCpp = CCppNone
  /\ extensionState = Store(NoEntries)
  /\ vscodeDirectory = TRUE
  /\ settingsFile \in {Absent, Json(DocUnix), Json(DocWindows)}
  /\ propertiesFile = Absent
  /\ installedMsvc \in {MsvcMissing, MsvcInstalled, MsvcStandard}
  /\ compilerProbe = Probe86
  /\ DEFAULT_INCLUDE_PATHS = Empty
  /\ settings = InitialSettings
  /\ pc = "new"
  /\ strategy = "none"
  /\ op = NoOp
  /\ thrown = "none"
  /\ TasksIdle
  /\ NoCall
  /\ DetectIdle

SpecMsvc == InitMsvc /\ [][Next]_vars

-----------------------------------------------------------------------------
(* Build, run and clean tasks (taskUtils)                                  *)

\* Builds
debug == "debug"
release == "release"
Builds == {debug, release}

\* Languages
LanguageC == "c"
LanguageCpp == "cpp"

\* the last tokens of a file name that path.parse takes for its extension
Extensions == {".c", ".C", ".cpp", ".cc", ".cxx", ".h", ".hpp"}

\* path.parse(file).ext, path.extname(file): empty for a name without a dot
\* and for a name that is nothing but the dotted token
extname(file) ==
  IF Len(file) > 1 /\ file[Len(file)] \in Extensions THEN file[Len(file)] ELSE ""

\* path.parse(file).name
parseName(file) ==
  IF extname(file) = "" THEN file ELSE SubSeq(file, 1, Len(file) - 1)

\* a variant that knows '.cpp' only
isCppSourceFile_cpp(fileExtLower) == fileExtLower = ".cpp"

\* utils.js isCppSourceFile
isCppSourceFile(fileExtLower) == fileExtLower \in {".cpp", ".cc", ".cxx"}

\* utils.js isCSourceFile
isCSourceFile(fileExtLower) == fileExtLower = ".c"

\* utils.js getLanguage, over the names of the files of the folder
getLanguage(fileNames) ==
  LET anyCppFile == \E i \in DOMAIN fileNames : isCppSourceFile(extname(fileNames[i]))
  IN IF anyCppFile THEN LanguageCpp ELSE LanguageC

\* fileUtils filesInDir: the names of the files of the folder, as listed
filesInDir(fileNames) == fileNames

\* an array of strings as an array of one-piece strings
pieces(array) == [i \in DOMAIN array |-> <<array[i]>>]

\* Array.prototype.join over an array of strings
RECURSIVE joinArray(_, _)
joinArray(array, separator) ==
  IF Len(array) = 0 THEN <<>>
  ELSE IF Len(array) = 1 THEN array[1]
  ELSE array[1] \o separator \o joinArray(Tail(array), separator)

\* an array put into a string by '+=': its elements joined by ','
arrayToString(array) == joinArray(pieces(array), <<",">>)

\* a variant that always names the directory of the debug build
buildDirOf_debug(folder, buildMode) ==
  join(operatingSystem, folder, <<"build", "/", debug, "/">>)

\* path.join(activeFolder, `build/${buildMode}/`)
buildDirOf(folder, buildMode) ==
  join(operatingSystem, folder, <<"build", "/", buildMode, "/">>)

\* path.join(buildDir, `${buildMode}Main[.exe]`)
executablePathOf(os, folder, buildMode) ==
  join(os, join(os, folder, <<"build", "/", buildMode, "/">>),
       IF os = windows THEN <<buildMode, "Main", ".exe">> ELSE <<buildMode, "Main">>)

\* a variant with the pairs of the two build modes exchanged
optimizationFlags_swapped(buildMode) ==
  IF buildMode = debug THEN <<" ", "-O3", " ", "-DNDEBUG">> ELSE <<" ", "-g3", " ", "-O0">>

\* executeTask: the pair of flags of the build mode
optimizationFlags(buildMode) ==
  IF buildMode = debug THEN <<" ", "-g3", " ", "-O0">> ELSE <<" ", "-O3", " ", "-DNDEBUG">>

\* executeTask: the flags shared by every sub-command
fullCompilerArgsOf(provider, standard, buildMode) ==
  LET useWarnings == provider.enableWarnings
      warningsAsErrors == provider.warningsAsError
      warnings0 == IF useWarnings THEN joinArray(pieces(provider.warnings), <<" ">>) ELSE <<>>
      warnings == IF useWarnings /\ warningsAsErrors
                  THEN warnings0 \o <<" ", "-Werror">> ELSE warnings0
      includeFlags == joinArray(pieces(provider.includePaths), <<" ", "-I", " ">>)
      a1 == IF warnings # <<>> THEN warnings ELSE <<>>
      a2 == IF standard # "" THEN a1 \o <<" ", "--std=", standard>> ELSE a1
      a3 == a2 \o optimizationFlags(buildMode)
      a4 == a3 \o arrayToString(provider.compilerArgs)
      a5 == a4 \o arrayToString(provider.linkerArgs)
  IN IF includeFlags # <<>> THEN a5 \o includeFlags ELSE a5

\* a variant that puts the newest sub-command first
appendSubCommand_front(commandLine, subCommand) ==
  IF Len(commandLine) = 0 THEN subCommand
  ELSE subCommand \o <<" ", "&&", " ">> \o commandLine

\* executeTask: commandLine += the sub-command, after ' && ' unless it is the first
appendSubCommand(commandLine, subCommand) ==
  IF Len(commandLine) = 0 THEN subCommand
  ELSE commandLine \o <<" ", "&&", " ">> \o subCommand

\* executeTask: the loop over the files; context holds what the loop reads,
\* result what it has built so far
RECURSIVE compileLoop(_, _, _)
compileLoop(files, context, result) ==
  IF files = <<>> THEN result
  ELSE LET file == Head(files)
           fileExtension == extname(file)
           skipped ==
             \/ context.language = LanguageC /\ ~isCSourceFile(fileExtension)
             \/ context.language = LanguageCpp /\ ~isCppSourceFile(fileExtension)
           fileBaseName == parseName(file)
           filePath == join(operatingSystem, context.activeFolder, file)
           objectFilePath == join(operatingSystem, context.buildDir, fileBaseName \o <<".o">>)
           fullFileArgs == <<"-c", " ">> \o filePath \o <<" ", "-o", " ">> \o objectFilePath
           subCommand ==
             context.compiler \o <<" ">> \o context.fullCompilerArgs \o <<" ">> \o fullFileArgs
       IN IF skipped THEN compileLoop(Tail(files), context, result)
          ELSE compileLoop(Tail(files), context,
                 [commandLine |-> appendSubCommand(result.commandLine, subCommand),
                  objectFiles |-> Append(result.objectFiles, objectFilePath),
                  mkdir |-> TRUE])

\* executeTask: the command line synthesized for the folder
buildCommandLine(provider, fileNames, folder, buildMode) ==
  LET language == getLanguage(fileNames)
      compiler == IF language = LanguageCpp THEN provider.cppCompiler ELSE provider.cCompiler
      standard == IF language = LanguageCpp THEN provider.cppStandard ELSE provider.cStandard
      fullCompilerArgs == fullCompilerArgsOf(provider, standard, buildMode)
      loop == compileLoop(filesInDir(fileNames),
                          [language |-> language, activeFolder |-> folder,
                           buildDir |-> buildDirOf(folder, buildMode),
                           compiler |-> compiler, fullCompilerArgs |-> fullCompilerArgs],
                          [commandLine |-> <<>>, objectFiles |-> <<>>, mkdir |-> FALSE])
      objectFilesStr == joinArray(loop.objectFiles, <<" ">>)
      fullObjectFileArgs ==
        objectFilesStr \o <<" ", "-o", " ">>
          \o executablePathOf(operatingSystem, folder, buildMode)
  IN [commandLine |->
        loop.commandLine \o <<" ", "&&", " ">> \o compiler \o <<" ">> \o fullCompilerArgs
          \o <<" ">> \o fullObjectFileArgs,
      mkdir |-> loop.mkdir]

\* the record of one hand-over to vscode.tasks.executeTask
Handed(name, folder, buildMode, commandLine) ==
  [name |-> name, activeFolder |-> folder, buildMode |-> buildMode,
   commandLine |-> commandLine]

\* nothing handed over yet
NothingHanded == Handed("none", <<>>, "", <<>>)

\* if (task && task.execution)
hasExecution == task.defined /\ task.execution

\* taskUtils executeTask
executeTask(folder, buildMode) ==
  /\ LET built == buildCommandLine(settingsProvider, folderFiles, folder, buildMode)
     IN /\ buildDirs' = IF built.mkdir THEN buildDirs \cup {buildMode} ELSE buildDirs
        /\ IF hasExecution
           THEN /\ task' = [task EXCEPT !.commandLine = built.commandLine]
                /\ executed' = Handed("executeTask", folder, buildMode, built.commandLine)
           ELSE UNCHANGED <<task, executed>>
  /\ <<buildDirs', task', executed'>> # <<buildDirs, task, executed>>
  /\ UNCHANGED <<providerVars, callVars, detectVars, folderFiles, settingsProvider>>

\* taskUtils runTask
runTask(folder, buildMode) ==
  /\ hasExecution
  /\ LET commandLine == executablePathOf(operatingSystem, folder, buildMode)
     IN /\ task' = [task EXCEPT !.commandLine = commandLine]
        /\ executed' = Handed("runTask", folder, buildMode, commandLine)
  /\ UNCHANGED <<providerVars, callVars, detectVars, folderFiles, buildDirs, settingsProvider>>

\* taskUtils cleanTask
cleanTask(folder, buildMode) ==
  /\ hasExecution
  /\ LET buildDir == buildDirOf(folder, buildMode)
         rmCommand == IF operatingSystem = windows THEN <<"del", " ">> ELSE <<"rm", " ", "-r">>
         commandLine == rmCommand \o <<" ">> \o buildDir
     IN /\ task' = [task EXCEPT !.commandLine = commandLine]
        /\ executed' = Handed("cleanTask", folder, buildMode, commandLine)
  /\ UNCHANGED <<providerVars, callVars, detectVars, folderFiles, buildDirs, settingsProvider>>

\* the most files a folder listing of the model holds
MaxFiles == 2

\* the files a folder may hold
FileNames ==
  {<<"a", ".c">>, <<"b", ".c">>, <<"a", ".cpp">>, <<"a", ".cc">>, <<"b", ".cxx">>,
   <<"x", ".C">>, <<"util", ".h">>}

\* the listings of a folder: its files in some order, none twice
FolderListings ==
  {l \in UNION {[1..n -> FileNames] : n \in 0..MaxFiles} :
     \A i, j \in DOMAIN l : i # j => l[i] # l[j]}

\* the providers the tasks may be given
ProviderPlain ==
  [cCompiler |-> <<"gcc">>, cppCompiler |-> <<"g++">>, cStandard |-> "", cppStandard |-> "",
   enableWarnings |-> TRUE, warningsAsError |-> FALSE,
   warnings |-> <<"-Wall", "-Wextra">>, includePaths |-> <<>>,
   compilerArgs |-> <<>>, linkerArgs |-> <<>>]
ProviderRich ==
  [cCompiler |-> <<"/", "usr", "/", "bin", "/", "clang">>,
   cppCompiler |-> <<"/", "usr", "/", "bin", "/", "clang++">>,
   cStandard |-> "c11", cppStandard |-> "c++17",
   enableWarnings |-> TRUE, warningsAsError |-> TRUE,
   warnings |-> <<"-Wall">>, includePaths |-> <<"inc", "lib">>,
   compilerArgs |-> <<"-pthread", "-fPIC">>, linkerArgs |-> <<"-lm">>]
ProviderQuiet ==
  [ProviderRich EXCEPT !.enableWarnings = FALSE, !.compilerArgs = <<>>,
                       !.includePaths = <<"inc">>]
TaskProviders == {ProviderPlain, ProviderRich, ProviderQuiet}

\* the Task objects a command may be given
TaskReady == [defined |-> TRUE, execution |-> TRUE, commandLine |-> <<>>]
TaskWithoutExecution == [defined |-> TRUE, execution |-> FALSE, commandLine |-> <<>>]
TaskUndefined == [defined |-> FALSE, execution |-> FALSE, commandLine |-> <<>>]

\* the active folder of the tasks
TaskFolder ==
  IF operatingSystem = windows THEN <<"C:", "\\", "proj">> ELSE <<"/", "home", "/", "proj">>

\* no provider has been constructed
ProviderNotConstructed ==
  /\ activeFolder = FALSE
  /\ configGlobal = GlobalNone
  /\ configGlobalCCpp = CCppNone
  /\ extensionState = NoStore
  /\ vscodeDirectory = FALSE
  /\ settingsFile = Absent
  /\ installedMsvc = MsvcMissing
  /\ DEFAULT_INCLUDE_PATHS = Empty
  /\ settings = InitialSettings
  /\ pc = "new"
  /\ strategy = "none"
  /\ op = NoOp
  /\ thrown = "none"

\* the provider is not in use, whatever its compilers report
ProviderUnused ==
  /\ propertiesFile = Absent
  /\ ProviderNotConstructed

\* the provider is not in use
ProviderIdle ==
  /\ compilerProbe = Probe64
  /\ ProviderUnused

InitTask ==
  /\ operatingSystem \in OperatingSystems
  /\ ProviderIdle
  /\ NoCall
  /\ DetectIdle
  /\ folderFiles \in FolderListings
  /\ buildDirs = {}
  /\ settingsProvider \in TaskProviders
  /\ task \in {TaskReady, TaskWithoutExecution, TaskUndefined}
  /\ task # TaskReady => (settingsProvider = ProviderPlain /\ operatingSystem = linux)
  /\ executed = NothingHanded

NextTask ==
  \/ \E buildMode \in Builds : executeTask(TaskFolder, buildMode)
  \/ \E buildMode \in Builds : runTask(TaskFolder, buildMode)
  \/ \E buildMode \in Builds : cleanTask(TaskFolder, buildMode)

SpecTask == InitTask /\ [][NextTask]_vars

-----------------------------------------------------------------------------
(* Helpers of utils.js, each called once on arguments drawn from a bounded *)
(* set: args holds the call, returned what it gave back.                   *)

\* String.prototype.includes for a needle of several tokens
includesText(text, needle) ==
  \E i \in 1..(Len(text) - Len(needle) + 1) : SubSeq(text, i, i + Len(needle) - 1) = needle

\* no call has returned yet
NoReturn == [name |-> "none"]

\* the names a directory entry may have, in the order readdirSync lists them
DirNames ==
  <<<<".", "git">>, <<".", "vscode">>, <<"CMake", "Files">>, <<"__", "pycache", "__">>,
    <<"build">>, <<"lib">>, <<"re", "build">>, <<"src">>>>

\* the workspace folder the enumeration starts from
WorkspaceFolder == <<"/", "ws">>

\* the directories that may exist below the workspace folder
DirectoryUniverse ==
  LET under(folder, names) == {folder \o <<"/">> \o n : n \in names}
  IN under(WorkspaceFolder,
           {<<"src">>, <<"build">>, <<".", "vscode">>, <<".", "git">>,
            <<"__", "pycache", "__">>, <<"CMake", "Files">>, <<"re", "build">>})
       \cup under(WorkspaceFolder \o <<"/", "src">>, {<<"lib">>, <<".", "git">>, <<"build">>})
       \cup under(WorkspaceFolder \o <<"/", "build">>, {<<"lib">>})
       \cup under(WorkspaceFolder \o <<"/", ".", "git">>, {<<"lib">>})

\* the parent directory of a directory of the universe
parentOf(dir) == SubSeq(dir, 1, lastSeparator(linux, dir) - 1)

\* the directory trees: every directory but the workspace folder has its parent
DirectoryTrees ==
  {tree \in SUBSET DirectoryUniverse :
     \A dir \in tree : parentOf(dir) = WorkspaceFolder \/ parentOf(dir) \in tree}

\* the concatenation of the lists getDirectories gives for the directories
RECURSIVE getDirectories(_, _)
RECURSIVE pushAll(_, _, _)
pushAll(tree, dirs, directories) ==
  IF dirs = <<>> THEN directories
  ELSE LET inner == getDirectories(tree, Head(dirs))
       IN pushAll(tree, Tail(dirs),
                  IF inner.defined THEN directories \o inner.directories ELSE directories)

\* utils.js getDirectories, on a file system holding the directories of tree
getDirectories(tree, folder) ==
  LET isDirectory(name) == join(linux, folder, name) \in tree
      fileDirents == SelectSeq(DirNames, isDirectory)
      joined == [i \in DOMAIN fileDirents |-> join(linux, folder, fileDirents[i])]
      notVscode(dir) == ~includesText(dir, <<".", "vscode">>)
      notBuild(dir) == ~includesText(dir, <<"build">>)
      directories == SelectSeq(SelectSeq(joined, notVscode), notBuild)
  IN IF Len(directories) = 0 THEN [defined |-> FALSE, directories |-> <<>>]
     ELSE [defined |-> TRUE, directories |-> pushAll(tree, directories, directories)]

\* one call of getDirectories on the workspace folder
getDirectoriesCall ==
  /\ args.name = "getDirectories"
  /\ returned = NoReturn
  /\ returned' = [name |-> "getDirectories",
                  value |-> getDirectories(args.tree, args.folder)]
  /\ UNCHANGED <<providerVars, taskVars, detectVars, args>>

InitFolders ==
  /\ operatingSystem = linux
  /\ ProviderIdle
  /\ TasksIdle
  /\ DetectIdle
  /\ args \in [name : {"getDirectories"}, tree : DirectoryTrees, folder : {WorkspaceFolder}]
  /\ returned = NoReturn

NextFolders == getDirectoriesCall

SpecFolders == InitFolders /\ [][NextFolders]_vars

\* the most workspace folders of the model
MaxFolders == 2

\* `${cmakeExtensionName}.${cmakeSettingName}`
CmakeSettingKey == <<"cmake", "sourceDirectory">>

\* the values of the CMake source directory setting; the first is its default
CmakeDefault == "${workspaceFolder}"
CmakeValues == {CmakeDefault, "${workspaceFolder}/src", ""}

\* a settings document that sets the CMake source directory
CmakeDoc(value) == [key \in {CmakeSettingKey} |-> value]

\* the workspace folders: the names of their files and their .vscode/settings.json
CMakeLists == <<"CMakeLists", ".txt">>
WorkspaceRoot ==
  [files : {<<<<"main", ".c">>>>, <<<<"main", ".c">>, CMakeLists>>},
   settings : {Absent, Malformed, Json(NoEntries)} \cup {Json(CmakeDoc(v)) : v \in CmakeValues}]
WorkspaceRoots ==
  UNION {[1..n -> WorkspaceRoot] : n \in 1..MaxFolders}

\* vscode.workspace.getConfiguration('cmake'): sourceDirectory set or not
CmakeConfigurations == {NoEntries} \cup {[name \in {"sourceDirectory"} |-> v] : v \in CmakeValues}

\* JavaScript truthiness of a string that may be undefined
truthy(value) == value.defined /\ value.string # ""

\* isCmakeProject: workspaceFodlers.forEach(...)
RECURSIVE forEachFolder(_, _)
forEachFolder(folders, cmakeFileFound) ==
  IF folders = <<>> THEN cmakeFileFound
  ELSE IF cmakeFileFound THEN forEachFolder(Tail(folders), cmakeFileFound)
  ELSE LET folder == Head(folders)
           files == filesInDir(folder.files)
           fileFound ==
             \E i \in DOMAIN files :
               includesText(toLowerCase(files[i]), toLowerCase(CMakeLists))
           configLocal == readJsonFile(folder.settings)
           settingFound ==
             /\ pathExists(folder.settings)
             /\ configLocal.defined
             /\ truthy(IF CmakeSettingKey \in DOMAIN configLocal.value
                       THEN [defined |-> TRUE, string |-> configLocal.value[CmakeSettingKey]]
                       ELSE [defined |-> FALSE, string |-> ""])
       IN forEachFolder(Tail(folders), fileFound \/ settingFound)

\* isCmakeProject, given vscode.workspace.workspaceFolders and the
\* configuration of the host
isCmakeProject(workspaceFodlers, config) ==
  LET found == IF workspaceFodlers.defined
               THEN forEachFolder(workspaceFodlers.folders, FALSE) ELSE FALSE
      cmakeSetting == IF "sourceDirectory" \in DOMAIN config
                      THEN [defined |-> TRUE, string |-> config["sourceDirectory"]]
                      ELSE [defined |-> FALSE, string |-> ""]
  IN IF ~found THEN truthy(cmakeSetting) /\ cmakeSetting.string # CmakeDefault
     ELSE found

\* one call of isCmakeProject
isCmakeProjectCall ==
  /\ args.name = "isCmakeProject"
  /\ returned = NoReturn
  /\ returned' = [name |-> "isCmakeProject",
                  value |-> isCmakeProject(args.workspaceFolders, args.config)]
  /\ UNCHANGED <<providerVars, taskVars, detectVars, args>>

InitCmake ==
  /\ operatingSystem = linux
  /\ ProviderIdle
  /\ TasksIdle
  /\ DetectIdle
  /\ args \in [name : {"isCmakeProject"},
               workspaceFolders : {[defined |-> FALSE, folders |-> <<>>]}
                 \cup {[defined |-> TRUE, folders |-> f] : f \in WorkspaceRoots},
               config : CmakeConfigurations]
  /\ returned = NoReturn

NextCmake == isCmakeProjectCall

SpecCmake == InitCmake /\ [][NextCmake]_vars

\* what child_process.execSync(`${compiler} -dumpmachine`) may do: throw
\* because the binary is missing or exits with a non-zero status, or return
\* the bytes the compiler wrote
MissingBinary == [kind |-> "ENOENT", output |-> <<>>]
NonZeroExit == [kind |-> "status", output |-> <<>>]
Dumped(output) == [kind |-> "returned", output |-> output]
MachineDumps ==
  {MissingBinary, NonZeroExit, Dumped(<<>>), Dumped(<<"?">>),
   Dumped(<<"x86_", "64", "-pc-linux-gnu">>), Dumped(<<"x86_", "64", "-w", "64", "-mingw32">>),
   Dumped(<<"i686-pc-linux-gnu">>), Dumped(<<"i686-pc-cygwin">>),
   Dumped(<<"arm", "64", "-apple-darwin">>)}

\* a variant whose catch branch answers x64
utilsGetArchitecture_x64(compiler, execSync) ==
  IF execSync.kind # "returned" THEN x64
  ELSE IF includes(execSync.output, "64") THEN x64 ELSE x86

\* utils.js getArchitecture; execSync is what running the command does
utilsGetArchitecture(compiler, execSync) ==
  IF execSync.kind # "returned" THEN x86
  ELSE IF includes(execSync.output, "64") THEN x64 ELSE x86

\* the providers whose architecture is resolved
ArchitectureProviders ==
  {[InitialSettings EXCEPT !.useMsvc = msvc, !.cCompilerPath = c, !.cppCompilerPath = cpp] :
     msvc \in BOOLEAN, c \in {Empty, <<"gcc">>}, cpp \in {Empty, <<"g++">>}}

\* one call of utils.js getArchitecture
utilsGetArchitectureCall ==
  /\ args.name = "getArchitecture"
  /\ returned = NoReturn
  /\ returned' = [name |-> "getArchitecture",
                  value |-> utilsGetArchitecture(args.compiler, args.execSync)]
  /\ UNCHANGED <<providerVars, taskVars, detectVars, args>>

\* one call of SettingsProvider.getArchitecture
getArchitectureCall ==
  /\ args.name = "SettingsProvider.getArchitecture"
  /\ returned = NoReturn
  /\ returned' = [name |-> "SettingsProvider.getArchitecture",
                  value |-> getArchitecture(args.this).architecure]
  /\ UNCHANGED <<providerVars, taskVars, detectVars, args>>

InitArchitecture ==
  /\ operatingSystem = windows
  /\ ProviderUnused
  /\ TasksIdle
  /\ DetectIdle
  /\ \E execSync \in MachineDumps :
       /\ \/ args = [name |-> "getArchitecture", compiler |-> <<"gcc">>,
                     execSync |-> execSync, this |-> InitialSettings]
          \/ \E this \in ArchitectureProviders :
               args = [name |-> "SettingsProvider.getArchitecture", compiler |-> <<>>,
                       execSync |-> execSync, this |-> this]
       /\ compilerProbe = [architecure |-> utilsGetArchitecture(<<"gcc">>, execSync),
                           isCygwin |-> FALSE]
  /\ returned = NoReturn

NextArchitecture ==
  \/ utilsGetArchitectureCall
  \/ getArchitectureCall

SpecArchitecture == InitArchitecture /\ [][NextArchitecture]_vars

-----------------------------------------------------------------------------
(* The settings provider of part_001: detection of the toolchain.  A run   *)
(* of checkCompilers is suspended at each await; a step resumes one        *)
(* suspended run up to its next await.                                     *)

\* the most runs of checkCompilers the model starts
MaxChecks == 2

\* the commands checkCompilers looks up, in the order it awaits them
Commands == <<"gcc", "g++", "clang", "clang++", "gdb", "lldb", "make">>
MingwMake == "mingw32-make"

\* the positions of a run: awaiting the n-th command, awaiting mingw32-make, returned
AwaitsMingw == Len(Commands) + 1
Returned == Len(Commands) + 2

\* the name of a command in tokens
commandTokens(command) ==
  CASE command = "g++" -> <<"g", "++">>
    [] command = "clang++" -> <<"clang", "++">>
    [] OTHER -> <<command>>

\* a string that may be undefined, a boolean that may be undefined
undefinedString == [defined |-> FALSE, value |-> <<>>]
definedString(value) == [defined |-> TRUE, value |-> value]
undefinedBoolean == [defined |-> FALSE, value |-> FALSE]
definedBoolean(value) == [defined |-> TRUE, value |-> value]

\* lookpath(command): the path of the command in the PATH, or undefined
lookpath(command) ==
  IF command \in searchPath
  THEN definedString(
         IF operatingSystem = windows
         THEN <<"C:", "\\", "mingw64", "\\", "bin", "\\">> \o commandTokens(command) \o <<".EXE">>
         ELSE <<"/", "usr", "/", "bin", "/">> \o commandTokens(command))
  ELSE undefinedString

\* commandPath.replace('.EXE', '.exe'): the first occurrence
replaceEXE(commandPath) ==
  LET first == CHOOSE i \in DOMAIN commandPath :
                 /\ commandPath[i] = ".EXE"
                 /\ \A k \in 1..(i - 1) : commandPath[k] # ".EXE"
  IN [commandPath EXCEPT ![first] = ".exe"]

\* utils.js commandExists
commandExists(command) ==
  LET commandPath == lookpath(command)
  IN IF ~(commandPath.defined /\ commandPath.value # <<>>)
     THEN [found |-> FALSE, path |-> commandPath]
     ELSE IF includes(commandPath.value, ".EXE")
     THEN [found |-> TRUE, path |-> definedString(replaceEXE(commandPath.value))]
     ELSE [found |-> TRUE, path |-> commandPath]

\* const { f: found, p: path } = result: the properties f and p of the object
destructure(result) ==
  [found |-> IF "f" \in DOMAIN result THEN definedBoolean(result["f"]) ELSE undefinedBoolean,
   path |-> IF "p" \in DOMAIN result THEN result["p"] ELSE undefinedString]

\* found && path
isFound(result) ==
  LET local == destructure(result)
  IN /\ local.found.defined /\ local.found.value
     /\ local.path.defined /\ local.path.value # <<>>
pathOf(result) == destructure(result).path.value

\* what execSync(`${compiler} -dumpmachine`) does for a compiler of the PATH
execSyncOf(compiler) ==
  IF compiler \in searchPath THEN Dumped(<<"x86_", "64", "-pc-linux-gnu">>) ELSE MissingBinary

\* _config.update(key, value, CONFIGURATION_TARGET) by the run, on
\* this = [config, fields, writes]
configUpdate(this, run, key, value) ==
  [this EXCEPT !.config = [this.config EXCEPT ![key] = definedString(value)],
               !.writes = Append(this.writes, [run |-> run, key |-> key, value |-> value])]

\* setGcc .. setMake
setGcc(this, run, pathGcc) ==
  [configUpdate(this, run, "compilerPathC", pathGcc) EXCEPT !.fields.cCompiler = "gcc"]
setClang(this, run, pathClang) ==
  [configUpdate(this, run, "compilerPathC", pathClang) EXCEPT !.fields.cCompiler = "clang"]
setGpp(this, run, pathGpp) ==
  [configUpdate(this, run, "compilerPathCpp", pathGpp) EXCEPT !.fields.cppCompiler = "g++"]
setClangpp(this, run, pathClangpp) ==
  [configUpdate(this, run, "compilerPathCpp", pathClangpp)
     EXCEPT !.fields.cppCompiler = "clang++"]
setLLDB(this, run, pathLLDB) ==
  [configUpdate(this, run, "debuggerPath", pathLLDB) EXCEPT !.fields.debugger = "lldb"]
setGDB(this, run, pathGDB) ==
  [configUpdate(this, run, "debuggerPath", pathGDB) EXCEPT !.fields.debugger = "gdb"]
setMake(this, run, pathMake) == configUpdate(this, run, "makePath", pathMake)

\* checkCompilers from the seventh await to the lookup of mingw32-make;
\* results holds what the awaits gave, in the order of Commands
afterLookups(this, run, results) ==
  LET gcc == results[1]
      gpp == results[2]
      clang == results[3]
      clangpp == results[4]
      gdb == results[5]
      lldb == results[6]
      make == results[7]
  IN IF operatingSystem = mac
     THEN LET c == IF isFound(clang) THEN setClang(this, run, pathOf(clang))
                   ELSE IF isFound(gcc) THEN setGcc(this, run, pathOf(gcc))
                   ELSE [this EXCEPT !.fields.cCompiler = "undefined"]
              cpp == IF isFound(clangpp) THEN setClangpp(c, run, pathOf(clangpp))
                     ELSE IF isFound(gpp) THEN setGpp(c, run, pathOf(gpp))
                     ELSE [c EXCEPT !.fields.cppCompiler = "undefined"]
          IN IF isFound(lldb) THEN setLLDB(cpp, run, pathOf(lldb))
             ELSE IF isFound(gdb) THEN setGDB(cpp, run, pathOf(gdb))
             ELSE [cpp EXCEPT !.fields.debugger = "undefined"]
     ELSE LET c == IF isFound(gcc) THEN setGcc(this, run, pathOf(gcc))
                   ELSE IF isFound(clang) THEN setClang(this, run, pathOf(clang))
                   ELSE [this EXCEPT !.fields.cCompiler = "undefined"]
              cpp == IF isFound(gpp) THEN setGpp(c, run, pathOf(gpp))
                     ELSE IF isFound(clangpp) THEN setClangpp(c, run, pathOf(clangpp))
                     ELSE [c EXCEPT !.fields.cppCompiler = "undefined"]
              dbg == IF isFound(gdb) THEN setGDB(cpp, run, pathOf(gdb))
                     ELSE IF isFound(lldb) THEN setLLDB(cpp, run, pathOf(lldb))
                     ELSE [cpp EXCEPT !.fields.debugger = "undefined"]
          IN IF isFound(make) THEN setMake(dbg, run, pathOf(make)) ELSE dbg

\* checkCompilers awaits commandExists('mingw32-make')
awaitsMingw(results) ==
  operatingSystem = windows /\ ~isFound(results[7])

\* checkCompilers: if (this._cCompiler) this._architecure = getArchitecture(...)
lastOfCheck(this) ==
  IF this.fields.cCompiler # "undefined"
  THEN [this EXCEPT !.fields.architecure =
          utilsGetArchitecture(<<this.fields.cCompiler>>, execSyncOf(this.fields.cCompiler))]
  ELSE this

\* this._config.get(key, defaultValue)
configGet(key, defaultValue) ==
  IF workspaceConfig[key].defined THEN workspaceConfig[key].value ELSE defaultValue

\* part_001 getSettings: the paths it reads and the fields it derives from them
getSettings(this) ==
  LET compilerPathC == configGet("compilerPathC", <<"gcc">>)
      compilerPathCpp == configGet("compilerPathCpp", <<"g", "++">>)
      debuggerPath == configGet("debuggerPath", <<"gdb">>)
      makePath == configGet("makePath", <<"make">>)
      cBasename == basename(operatingSystem, compilerPathC)
      cppBasename == basename(operatingSystem, compilerPathCpp)
      cCompiler == IF includes(cBasename, "clang") THEN "clang" ELSE "gcc"
      isClangpp == includesText(cppBasename, <<"clang", "++">>)
  IN [this EXCEPT !.compilerPathC = compilerPathC,
                  !.compilerPathCpp = compilerPathCpp,
                  !.debuggerPath = debuggerPath,
                  !.makePath = makePath,
                  !.cCompiler = cCompiler,
                  !.cppCompiler = IF isClangpp THEN "clang++" ELSE "g++",
                  !.debugger = IF isClangpp THEN "lldb" ELSE "gdb",
                  !.architecure = utilsGetArchitecture(<<cCompiler>>, execSyncOf(cCompiler))]

\* a run of checkCompilers up to its first await; inFlight: an earlier run
\* has not returned yet
startedCheck ==
  [pc |-> 1, results |-> <<>>,
   inFlight |-> \E i \in DOMAIN checks : checks[i].pc # Returned]

\* part_001 SettingsProvider constructor
detectConstructor ==
  /\ ~fields.constructed
  /\ checks' = IF ~pathExists(propertiesFile) \/ ~pathExists(propertiesFile)
               THEN Append(checks, startedCheck) ELSE checks
  /\ fields' = [getSettings(fields) EXCEPT !.constructed = TRUE]
  /\ UNCHANGED <<providerVars, taskVars, callVars, searchPath, workspaceConfig, writes>>

\* the callback of _fileWatcherOnDelete.onDidDelete
onDidDelete ==
  /\ fields.constructed
  /\ Len(checks) < MaxChecks
  /\ checks' = Append(checks, startedCheck)
  /\ UNCHANGED <<providerVars, taskVars, callVars, searchPath, workspaceConfig, fields, writes>>

\* a run of checkCompilers goes on from the await of one of the seven commands
resumeCheck(run) ==
  /\ checks[run].pc \in DOMAIN Commands
  /\ LET results == Append(checks[run].results, commandExists(Commands[checks[run].pc]))
         this == [config |-> workspaceConfig, fields |-> fields, writes |-> writes]
     IN IF checks[run].pc < Len(Commands)
        THEN /\ checks' = [checks EXCEPT ![run].pc = @ + 1, ![run].results = results]
             /\ UNCHANGED <<workspaceConfig, fields, writes>>
        ELSE LET decided == afterLookups(this, run, results)
                 after == IF awaitsMingw(results) THEN decided ELSE lastOfCheck(decided)
             IN /\ checks' = [checks EXCEPT
                                ![run].pc = IF awaitsMingw(results) THEN AwaitsMingw
                                            ELSE Returned,
                                ![run].results = results]
                /\ workspaceConfig' = after.config
                /\ fields' = after.fields
                /\ writes' = after.writes
  /\ UNCHANGED <<providerVars, taskVars, callVars, searchPath>>

\* a run of checkCompilers goes on from the await of mingw32-make
resumeMingw(run) ==
  /\ checks[run].pc = AwaitsMingw
  /\ LET result == commandExists(MingwMake)
         this == [config |-> workspaceConfig, fields |-> fields, writes |-> writes]
         after == lastOfCheck(IF isFound(result) THEN setMake(this, run, pathOf(result))
                              ELSE this)
     IN /\ checks' = [checks EXCEPT ![run].pc = Returned,
                                    ![run].results = Append(@, result)]
        /\ workspaceConfig' = after.config
        /\ fields' = after.fields
        /\ writes' = after.writes
  /\ UNCHANGED <<providerVars, taskVars, callVars, searchPath>>

\* a command appears in the PATH while a run is in flight
Installable == {"gcc", "clang"}
installCommand(command) ==
  /\ command \notin searchPath
  /\ \E i \in DOMAIN checks : checks[i].pc # Returned
  /\ searchPath' = searchPath \cup {command}
  /\ UNCHANGED <<providerVars, taskVars, callVars, workspaceConfig, fields, checks, writes>>

\* the contents of the PATH at the start
SearchPaths ==
  {{}, {"gcc", "g++", "gdb", "make"}, {"clang", "clang++", "lldb"},
   {"gcc", "g++", "clang", "clang++", "gdb", "lldb", "make"}, {"g++", "lldb", MingwMake}}

\* the workspace configuration with no path set
ConfigKeys == {"compilerPathC", "compilerPathCpp", "debuggerPath", "makePath"}
NothingStored == [key \in ConfigKeys |-> undefinedString]

InitDetect ==
  /\ operatingSystem \in OperatingSystems
  /\ propertiesFile \in {Absent, Json(NoEntries)}
  /\ compilerProbe = Probe64
  /\ ProviderNotConstructed
  /\ TasksIdle
  /\ NoCall
  /\ searchPath \in SearchPaths
  /\ workspaceConfig = NothingStored
  /\ fields = [constructed |-> FALSE, cCompiler |-> "undefined", cppCompiler |-> "undefined",
               debugger |-> "undefined", architecure |-> "undefined",
               compilerPathC |-> <<>>, compilerPathCpp |-> <<>>,
               debuggerPath |-> <<>>, makePath |-> <<>>]
  /\ checks = <<>>
  /\ writes = <<>>

NextDetect ==
  \/ detectConstructor
  \/ onDidDelete
  \/ \E run \in DOMAIN checks : resumeCheck(run)
  \/ \E run \in DOMAIN checks : resumeMingw(run)
  \/ \E command \in Installable : installCommand(command)

SpecDetect == InitDetect /\ [][NextDetect]_vars

-----------------------------------------------------------------------------
(* The executions of part_001: getProcessExecution builds what the tasks    *)
(* API of the editor is to run.  An execution is a record of its kind, the  *)
(* program started, its arguments, the command line of a shell execution,   *)
(* and the working directory of its options, undefined when the options    *)
(* given to the constructor hold none.                                      *)

\* process.env[name] ? process.env[name] : fallback
envOr(value, fallback) ==
  IF value.defined /\ value.value # <<>> THEN value.value ELSE fallback

\* part_001 unixProcessExecution
unixProcessExecution(environment, commandLine, options) ==
  LET standard_shell == envOr(environment.SHELL, <<"/", "bin", "/", "bash">>)
  IN [kind |-> "ProcessExecution",
      process |-> standard_shell,
      args |-> <<<<"-c">>, commandLine>>,
      commandLine |-> <<>>,
      cwd |-> definedString(options.cwd)]

\* part_001 winProcessExecution
winProcessExecution(environment, isMsvcBuildTask, commandLine, options) ==
  LET drive == envOr(environment.SystemDrive, <<"C:">>)
      cmd == drive \o <<"/", "Windows", "/", "System32", "/", "cmd", ".exe">>
  IN IF isMsvcBuildTask
     THEN [kind |-> "ShellExecution",
           process |-> cmd,
           args |-> <<<<"/d">>, <<"/c">>>>,
           commandLine |-> commandLine,
           cwd |-> undefinedString]
     ELSE [kind |-> "ProcessExecution",
           process |-> cmd,
           args |-> <<<<"/d">>, <<"/c">>, commandLine>>,
           commandLine |-> <<>>,
           cwd |-> definedString(options.cwd)]

\* part_001 getProcessExecution
getProcessExecution(environment, os, isMsvcBuildTask, commandLine, folder) ==
  LET options == [cwd |-> folder]
  IN IF os = windows
     THEN winProcessExecution(environment, isMsvcBuildTask, commandLine, options)
     ELSE unixProcessExecution(environment, commandLine, options)

\* one call of getProcessExecution
getProcessExecutionCall ==
  /\ args.name = "getProcessExecution"
  /\ returned = NoReturn
  /\ returned' = [name |-> "getProcessExecution",
                  value |-> getProcessExecution(args.environment, args.operatingSystem,
                                                args.isMsvcBuildTask, args.commandLine,
                                                args.activeFolder)]
  /\ UNCHANGED <<providerVars, taskVars, detectVars, args>>

\* the values of an environment variable: unset, empty, set
SystemDrives == {undefinedString, definedString(<<>>), definedString(<<"D:">>)}
Shells == {undefinedString, definedString(<<>>), definedString(<<"/", "bin", "/", "zsh">>)}

\* the command lines of the tasks, and the folders they are run for
ExecutionCommandLines ==
  {<<"gcc", " ", "-c", " ", "main", ".c">>,
   <<"cl", ".exe", " ", "main", ".c">>,
   <<"rm", " ", "-r", " ", "build">>}
ExecutionFolders ==
  {<<"C:", "\\", "proj">>, <<"/", "home", "/", "proj">>, <<"/", "home", "/", "proj", "/", "sub">>}

InitExecution ==
  /\ operatingSystem \in OperatingSystems
  /\ ProviderIdle
  /\ TasksIdle
  /\ DetectIdle
  /\ \E drive \in SystemDrives, shell \in Shells, isMsvcBuildTask \in BOOLEAN,
        commandLine \in ExecutionCommandLines, folder \in ExecutionFolders :
       args = [name |-> "getProcessExecution",
               environment |-> [SystemDrive |-> drive, SHELL |-> shell],
               operatingSystem |-> operatingSystem,
               isMsvcBuildTask |-> isMsvcBuildTask,
               commandLine |-> commandLine,
               activeFolder |-> folder]
  /\ returned = NoReturn

NextExecution == getProcessExecutionCall

SpecExecution == InitExecution /\ [][NextExecution]_vars

-----------------------------------------------------------------------------
(* Properties                                                                *)

\* the step in which the constructor runs
ConstructorStep == pc = "new" /\ pc' # "new"

\* the parsed settings document lacks one of the three mandatory keys
LacksMandatoryKey(file) == ~(MandatoryKeys \subseteq DOMAIN file.json)

\* C1: constructed for a non-empty active folder with c_cpp_properties.json
\* present, the constructor takes the Partial strategy whenever settings.json
\* is absent or lacks a mandatory key, and the Warm strategy only when all
\* three mandatory keys are present.
C1_PartialWheneverSettingsIncomplete ==
  [][(ConstructorStep /\ activeFolder /\ pathExists(propertiesFile)) =>
       /\ (settingsFile.kind = "absent" \/ LacksMandatoryKey(settingsFile))
            => strategy' = "partial"
       /\ strategy' = "warm" => ~LacksMandatoryKey(settingsFile)]_vars

\* '/W...' and '-W...'
isMsvcStyle(warning) == Len(warning) > 0 /\ warning[1] = "/"
isUnixStyle(warning) == Len(warning) > 0 /\ warning[1] = "-"

\* C2: after construction and after every changeCallback, deleteCallback,
\* writeFileData and reset, every warning in effect is MSVC-style when useMsvc
\* is true and Unix-style when useMsvc is false.
C2_WarningsMatchToolchain ==
  (pc = "ready" /\ strategy # "none") =>
    \A i \in DOMAIN settings.warnings :
      IF settings.useMsvc THEN isMsvcStyle(settings.warnings[i])
      ELSE isUnixStyle(settings.warnings[i])


\* the globally configured include paths (C_Cpp.default.includePath)
GlobalIncludePath ==
  IF configGlobalCCpp.defined /\ <<"includePath">> \in DOMAIN configGlobalCCpp.value
  THEN configGlobalCCpp.value[<<"includePath">>]
  ELSE Empty

\* the built-in default of every setting
BuiltIn ==
  [cCompilerPath |-> DEFAULT_C_COMPILER_PATH,
   cppCompilerPath |-> DEFAULT_CPP_COMPILER_PATH,
   debuggerPath |-> DEFAULT_DEBUGGER_PATH,
   msvcBatchPath |-> DEFAULT_MSVC_BATCH_PATH,
   msvcToolsPath |-> DEFAULT_MSVC_TOOLS_PATH,
   useMsvc |-> DEFAULT_USE_MSVC,
   cStandard |-> DEFAULT_C_STANDARD_UNIX,
   cppStandard |-> DEFAULT_CPP_STANDARD,
   compilerArgs |-> DEFAULT_COMPILER_ARGS,
   linkerArgs |-> DEFAULT_LINKER_ARGS,
   includePaths |-> Empty,
   includeSearch |-> DEFAULT_INCLUDE_SEARCH,
   excludeSearch |-> DEFAULT_EXCLUDE_SEARCH,
   enableWarnings |-> DEFAULT_ENABLE_WARNINGS,
   warningsAsError |-> DEFAULT_WARNINGS_AS_ERRORS,
   warnings |-> DEFAULT_WARNINGS_UNIX]

PathNames == {"cCompilerPath", "cppCompilerPath", "debuggerPath"}

\* the keys storeSettings writes
StoredNames ==
  PathNames \cup
  {"cStandard", "cppStandard", "msvcBatchPath", "warnings", "enableWarnings",
   "warningsAsError", "compilerArgs", "linkerArgs", "includePaths",
   "includeSearch", "excludeSearch"}

\* the global-configuration value of a setting, its built-in default otherwise
GlobalOrDefault(name) ==
  IF name \in DOMAIN configGlobal THEN configGlobal[name] ELSE BuiltIn[name]

\* the value of the document, else of the global configuration, else the default
Resolved(file, name) ==
  IF file.kind = "json" /\ extensionKey(name) \in DOMAIN file.json
  THEN file.json[extensionKey(name)]
  ELSE GlobalOrDefault(name)

\* storeSettings has just written the snapshot
JustStored == pc = "ready" /\ op.name \in {"writeFileData", "reset"} /\ thrown = "none"

\* the snapshot a load of the persisted document yields now
Reloaded == loadLocalSettings(settings, DEFAULT_INCLUDE_PATHS, settingsFile).this

\* C3: once the snapshot has been persisted, loading the persisted document
\* yields the same value for every setting but includePaths, and includePaths
\* is the persisted list followed by the global include paths.
C3_StoreThenLoadRoundTrip ==
  JustStored =>
    /\ \A name \in DOMAIN BuiltIn \ {"includePaths"} : Reloaded[name] = settings[name]
    /\ Reloaded.includePaths = settings.includePaths \o GlobalIncludePath

\* C4: update(key, value) on an existing settings document sets
\* C_Cpp_Runner.<key> to value and keeps every other entry readJsonFile
\* finds in it, of any namespace, with its value; the updates of
\* storeSettings keep every entry they do not write.
C4_UpdateKeepsOtherEntries ==
  [][/\ \A key \in UpdateKeys : \A value \in UpdateValues(key) :
          (op'.name = "update" /\ pathExists(settingsFile) /\ updateCall(key, value)) =>
            /\ settingsFile'.kind = "json"
            /\ extensionKey(key) \in DOMAIN settingsFile'.json
            /\ settingsFile'.json[extensionKey(key)] = value
            /\ \A k \in DOMAIN settingsFile.json \ {extensionKey(key)} :
                 k \in DOMAIN settingsFile'.json /\ settingsFile'.json[k] = settingsFile.json[k]
     /\ (/\ op'.name \in {"writeFileData", "reset"} /\ thrown' = "none"
         /\ pathExists(settingsFile)
         /\ (writeFileDataCall \/ resetCall)) =>
          /\ settingsFile'.kind = "json"
          /\ \A k \in DOMAIN settingsFile.json \ {extensionKey(name) : name \in StoredNames} :
               k \in DOMAIN settingsFile'.json /\ settingsFile'.json[k] = settingsFile.json[k]]_vars

\* C4 witness: update has run on a document that held another tool's key
C4_Witness ==
  /\ op.name = "update" /\ thrown = "none"
  /\ ForeignKey \in DOMAIN settingsFile.json
  /\ extensionKey("warnings") \in DOMAIN settingsFile.json
  /\ settingsFile.json[extensionKey(op.key)] = op.value

\* the form a value takes in the document: updateBasedOnEnv writes the three
\* tool paths with '/' for every backslash on Windows
EnvValue(name, value) ==
  IF name \in PathNames /\ operatingSystem = windows
  THEN replaceBackslashes(value)
  ELSE value

\* C5: after reset() every field of the snapshot (useMsvc, msvcToolsPath and
\* includeSearch among them) equals its global value or built-in default,
\* whatever it held before, and the persisted document holds those values
\* under every key reset() writes.
C5_ResetDiscardsEverything ==
  (pc = "ready" /\ op.name = "reset") =>
    /\ \A name \in DOMAIN BuiltIn : settings[name] = GlobalOrDefault(name)
    /\ thrown = "none" =>
         \A name \in StoredNames :
           /\ extensionKey(name) \in DOMAIN settingsFile.json
           /\ settingsFile.json[extensionKey(name)] = EnvValue(name, GlobalOrDefault(name))

\* the settings the cold-start load takes from the global configuration
ColdStartNames ==
  PathNames \cup {"cStandard", "cppStandard", "compilerArgs", "linkerArgs",
                  "enableWarnings", "warningsAsError", "excludeSearch"}

\* C6: a deletion is ignored while the activation flag is not set (snapshot
\* and settings document stay as the deletion left them); with the flag set
\* the values come from the global defaults and the settings document is
\* persisted with the three mandatory keys.
C6_DeleteReloadsColdStart ==
  [][\A deleted \in Deleted :
       (op'.name = "deleteCallback" /\ deleteCallback(deleted)) =>
         IF ~getActivationState
         THEN /\ settings' = settings
              /\ settingsFile' =
                   (IF deleted \in {"settings.json", ".vscode"} THEN Absent ELSE settingsFile)
         ELSE /\ \A name \in ColdStartNames : settings'[name] = GlobalOrDefault(name)
              /\ settingsFile'.kind = "json"
              /\ MandatoryKeys \subseteq DOMAIN settingsFile'.json]_vars

\* C7: the constructor, changeCallback and deleteCallback never raise an
\* error, whatever the two documents hold.
C7_NeverFatal ==
  op.name \in {"constructor", "changeCallback", "deleteCallback"} => thrown = "none"

\* the constructor has just run the Cold start
ColdStarted == op.name = "constructor" /\ strategy = "cold"

WarmLoaded ==
  pc = "ready" /\ (op.name = "changeCallback" \/ (op.name = "constructor" /\ strategy = "warm"))

\* the settings loadLocalSettings reads by the precedence of getSettingsValue
\* and keeps as read: msvcToolsPath is derived, the warnings are subject to
\* the style normalization, includePaths has the global list appended
LoadedNames == DOMAIN BuiltIn \ {"msvcToolsPath", "warnings", "includePaths"}

\* C9: after a Warm load every setting read as it stands holds the document's
\* value when the key is present, else the global configuration value, else
\* the built-in default, and includePaths is the list so resolved followed by
\* the globally configured include paths.
C9_WarmLoadPrecedence ==
  WarmLoaded =>
    /\ \A name \in LoadedNames : settings[name] = Resolved(settingsFile, name)
    /\ settings.includePaths = Resolved(settingsFile, "includePaths") \o GlobalIncludePath

\* the tools getSettingsFromProperties is to derive from the C compiler path c
DerivedTools(c) ==
  LET clang == includes(toLowerCase(basename(operatingSystem, c)), "clang")
      dir == dirname(operatingSystem, c)
      suffix == IF operatingSystem = windows THEN <<".exe">> ELSE Empty
      tool(n) == join(operatingSystem, dir, <<n>> \o suffix)
  IN [cCompilerPath |-> c,
      cppCompilerPath |-> tool(IF clang THEN "clang++" ELSE "g++"),
      debuggerPath |-> tool(IF clang THEN "lldb" ELSE "gdb")]

Loaded ==
  /\ pc = "ready" /\ thrown = "none"
  /\ op.name \in {"constructor", "changeCallback", "writeFileData", "deleteCallback"}
  /\ op.name = "constructor" => strategy # "none"
  /\ op.name = "deleteCallback" => getActivationState

\* <base>/VC/Tools/MSVC/<last entry of the listing>/<architecture directory>
MsvcToolsDirectory ==
  LET base == splitFirst(settings.msvcBatchPath, "VC")
      root == base \o <<"VC", "/", "Tools", "/", "MSVC">>
      listing == foldersInDir(root)
      version == splitLast(listing[Len(listing)], "\\")
      architecturePath ==
        IF settings.architecure = x86
        THEN <<"bin", "/", "Hostx86", "/", "x86">>
        ELSE <<"bin", "/", "Hostx64", "/", "x64">>
  IN IF base = Empty \/ Len(listing) = 0 THEN Empty
     ELSE join(operatingSystem, join(operatingSystem, root, version), architecturePath)

\* C11: after a settings load in MSVC mode the tools path is
\* <base>/VC/Tools/MSVC/<last listed version>/bin/Host<arch>/<arch> when that
\* directory exists, and is left at its empty default when a segment of it is
\* missing; the load completes either way.
C11_MsvcToolsPathDerived ==
  (Loaded /\ settings.useMsvc) =>
    IF MsvcToolsDirectory \in installedMsvc.tools
    THEN settings.msvcToolsPath = MsvcToolsDirectory
    ELSE settings.msvcToolsPath = DEFAULT_MSVC_TOOLS_PATH

-----------------------------------------------------------------------------
(* Properties of the tasks                                                 *)

\* the index of the first piece of a text equal to the given piece, 0 if none
RECURSIVE indexOf(_, _, _)
indexOf(text, piece, from) ==
  IF from > Len(text) THEN 0
  ELSE IF text[from] = piece THEN from
  ELSE indexOf(text, piece, from + 1)

\* the sub-commands of a command line: its parts between ' && '
RECURSIVE subCommands(_)
subCommands(commandLine) ==
  LET at == indexOf(commandLine, "&&", 1)
  IN IF at = 0 THEN <<commandLine>>
     ELSE <<SubSeq(commandLine, 1, at - 2)>>
            \o subCommands(SubSeq(commandLine, at + 2, Len(commandLine)))

\* a text ends with the given text
endsWith(text, end) ==
  /\ Len(end) <= Len(text)
  /\ SubSeq(text, Len(text) - Len(end) + 1, Len(text)) = end

\* a text starts with the given text
startsWith(text, start) ==
  /\ Len(start) <= Len(text)
  /\ SubSeq(text, 1, Len(start)) = start

\* the build has handed its command line over
BuildHanded == executed.name = "executeTask"

\* the extensions of the language the folder resolves to
CppExtensions == {".cpp", ".cc", ".cxx"}
FolderHasCpp == \E i \in DOMAIN folderFiles : extname(folderFiles[i]) \in CppExtensions
IsMatched(file) ==
  IF FolderHasCpp THEN extname(file) \in CppExtensions ELSE extname(file) = ".c"

\* the matched source files s1..sn of the folder, in the order of the listing
Matched == SelectSeq(folderFiles, IsMatched)

\* <folder>/build/<mode>/ in the notation of the operating system
ModeDirectory(folder, buildMode) ==
  LET sep == IF operatingSystem = windows THEN "\\" ELSE "/"
  IN folder \o <<sep, "build", sep, buildMode, sep>>

\* <folder>/build/<mode>/<mode>Main, with '.exe' on Windows
ModeExecutable(folder, buildMode) ==
  ModeDirectory(folder, buildMode)
    \o (IF operatingSystem = windows THEN <<buildMode, "Main", ".exe">>
        ELSE <<buildMode, "Main">>)

\* the object file of a source file
ObjectOf(file, folder, buildMode) ==
  ModeDirectory(folder, buildMode) \o SubSeq(file, 1, Len(file) - 1) \o <<".o">>

\* the source file under the folder
SourceOf(file, folder) ==
  folder \o <<IF operatingSystem = windows THEN "\\" ELSE "/">> \o file

\* the object files of the matched files, blank-separated, in their order
RECURSIVE ObjectList(_, _, _)
ObjectList(files, folder, buildMode) ==
  IF files = <<>> THEN <<>>
  ELSE IF Len(files) = 1 THEN ObjectOf(files[1], folder, buildMode)
  ELSE ObjectOf(files[1], folder, buildMode) \o <<" ">>
         \o ObjectList(Tail(files), folder, buildMode)

\* C12: when the folder has n >= 1 matched source files, the command line the
\* build hands over is n compile sub-commands in the order of the listing, the
\* i-th compiling the i-th matched file to build/<mode>/<name>.o, then one link
\* sub-command naming the n object files in that order and writing the
\* executable of the mode, all of them joined by '&&'
C12_BuildCommandOrdering ==
  (BuildHanded /\ Len(Matched) >= 1) =>
    LET folder == executed.activeFolder
        buildMode == executed.buildMode
        subs == subCommands(executed.commandLine)
        n == Len(Matched)
    IN /\ Len(subs) = n + 1
       /\ \A i \in 1..n :
            endsWith(subs[i],
              <<" ", "-c", " ">> \o SourceOf(Matched[i], folder)
                \o <<" ", "-o", " ">> \o ObjectOf(Matched[i], folder, buildMode))
       /\ endsWith(subs[n + 1],
            <<" ">> \o ObjectList(Matched, folder, buildMode)
              \o <<" ", "-o", " ">> \o ModeExecutable(folder, buildMode))
       /\ indexOf(subs[n + 1], "-c", 1) = 0

\* a release build of a folder with two matched files has been handed over
C12_Witness ==
  /\ BuildHanded
  /\ Len(Matched) = 2
  /\ executed.buildMode = release
  /\ Len(subCommands(executed.commandLine)) = 3

\* the compiler and the standard of the language the folder resolves to
LanguageCompiler ==
  IF FolderHasCpp THEN settingsProvider.cppCompiler ELSE settingsProvider.cCompiler
LanguageStandard ==
  IF FolderHasCpp THEN settingsProvider.cppStandard ELSE settingsProvider.cStandard

\* the flag string of a sub-command: what stands between '<compiler> ' and
\* the file arguments the sub-command ends with
flagsOf(subCommand, fileArgs) ==
  SubSeq(subCommand, Len(LanguageCompiler) + 2, Len(subCommand) - Len(fileArgs))

\* the file arguments of the i-th compile sub-command and of the link sub-command
CompileArgs(i, folder, buildMode) ==
  <<" ", "-c", " ">> \o SourceOf(Matched[i], folder)
    \o <<" ", "-o", " ">> \o ObjectOf(Matched[i], folder, buildMode)
LinkArgs(folder, buildMode) ==
  <<" ">> \o ObjectList(Matched, folder, buildMode)
    \o <<" ", "-o", " ">> \o ModeExecutable(folder, buildMode)

\* the flag string of the link sub-command of the build handed over
LinkFlags ==
  LET subs == subCommands(executed.commandLine)
  IN flagsOf(subs[Len(subs)], LinkArgs(executed.activeFolder, executed.buildMode))

\* the positions of the given pieces in a flag string (0: not there)
positions(flags, group) == {indexOf(flags, group[i], 1) : i \in DOMAIN group}

\* the flag groups the build is to emit, in the order of the claim
FlagGroups ==
  <<IF settingsProvider.enableWarnings
    THEN settingsProvider.warnings
           \o (IF settingsProvider.warningsAsError THEN <<"-Werror">> ELSE <<>>)
    ELSE <<>>,
    IF LanguageStandard # "" THEN <<"--std=", LanguageStandard>> ELSE <<>>,
    IF executed.buildMode = debug THEN <<"-g3", "-O0">> ELSE <<"-O3", "-DNDEBUG">>,
    settingsProvider.compilerArgs,
    settingsProvider.linkerArgs,
    settingsProvider.includePaths>>

\* the pieces no flag string of the build may hold
FlagsLeftOut ==
  (IF settingsProvider.enableWarnings
   THEN (IF settingsProvider.warningsAsError THEN {} ELSE {"-Werror"})
   ELSE {settingsProvider.warnings[i] : i \in DOMAIN settingsProvider.warnings}
          \cup {"-Werror"})
    \cup (IF LanguageStandard # "" THEN {} ELSE {"--std="})
    \cup (IF executed.buildMode = debug THEN {"-O3", "-DNDEBUG"} ELSE {"-g3", "-O0"})

\* C13: every compile and link sub-command of one build carries the same flag
\* string, and in it the groups stand in the order warnings (only when enabled,
\* with -Werror when warnings are errors), standard, the pair of the build mode
\* ('-g3 -O0' for debug, '-O3 -DNDEBUG' for release), extra compiler arguments,
\* extra linker arguments, include paths
C13_FlagOrderFixed ==
  BuildHanded =>
    LET folder == executed.activeFolder
        buildMode == executed.buildMode
        subs == subCommands(executed.commandLine)
        n == Len(Matched)
    IN /\ \A i \in 1..n :
            /\ startsWith(subs[i], LanguageCompiler \o <<" ">>)
            /\ flagsOf(subs[i], CompileArgs(i, folder, buildMode)) = LinkFlags
       /\ startsWith(subs[Len(subs)], LanguageCompiler \o <<" ">>)
       /\ \A g \in 1..6 :
            /\ 0 \notin positions(LinkFlags, FlagGroups[g])
            /\ \A i, j \in DOMAIN FlagGroups[g] :
                 i < j => indexOf(LinkFlags, FlagGroups[g][i], 1)
                            < indexOf(LinkFlags, FlagGroups[g][j], 1)
            /\ \A h \in 1..6 :
                 g < h => \A a \in positions(LinkFlags, FlagGroups[g]) :
                            \A b \in positions(LinkFlags, FlagGroups[h]) : a < b
       /\ \A piece \in FlagsLeftOut : indexOf(LinkFlags, piece, 1) = 0

\* a debug build with every flag group in use and two files has been handed over
C13_Witness ==
  /\ BuildHanded
  /\ settingsProvider = ProviderRich
  /\ executed.buildMode = debug
  /\ Len(Matched) = 2
  /\ indexOf(LinkFlags, "-Werror", 1) > 0

\* a text holds the given text
containsText(text, part) ==
  \E i \in 1..(Len(text) - Len(part) + 1) : SubSeq(text, i, i + Len(part) - 1) = part

\* the files of the folder the handed command line compiles
CompileSet ==
  {folderFiles[i] : i \in
     {j \in DOMAIN folderFiles :
        containsText(executed.commandLine,
          <<"-c", " ">> \o SourceOf(folderFiles[j], executed.activeFolder) \o <<" ">>)}}

\* the files of the folder with one of the given extensions
FilesWith(extensions) ==
  {folderFiles[i] : i \in {j \in DOMAIN folderFiles :
     Len(folderFiles[j]) > 1 /\ folderFiles[j][Len(folderFiles[j])] \in extensions}}

\* C14: a folder without a .cpp/.cc/.cxx file resolves to c and the build
\* compiles exactly its .c files; a folder with such a file resolves to cpp and
\* the build compiles exactly the .cpp/.cc/.cxx files, with the C++ compiler
\* and the C++ standard, and no .c file
C14_LanguageAndCompileSet ==
  BuildHanded =>
    LET subs == subCommands(executed.commandLine)
        compiler == IF FilesWith(CppExtensions) = {}
                    THEN settingsProvider.cCompiler ELSE settingsProvider.cppCompiler
        standard == IF FilesWith(CppExtensions) = {}
                    THEN settingsProvider.cStandard ELSE settingsProvider.cppStandard
    IN /\ getLanguage(folderFiles)
            = (IF FilesWith(CppExtensions) = {} THEN LanguageC ELSE LanguageCpp)
       /\ CompileSet
            = (IF FilesWith(CppExtensions) = {} THEN FilesWith({".c"})
               ELSE FilesWith(CppExtensions))
       /\ FilesWith(CppExtensions) # {} => CompileSet \cap FilesWith({".c"}) = {}
       /\ \A i \in DOMAIN subs :
            subs[i] # <<>> =>
              /\ startsWith(subs[i], compiler \o <<" ">>)
              /\ standard # "" => containsText(subs[i], <<" ", "--std=", standard>>)

\* the build of a folder with a .c file and a C++ file has been handed over
C14_Witness ==
  /\ BuildHanded
  /\ FilesWith({".c"}) # {}
  /\ FilesWith(CppExtensions) # {}
  /\ settingsProvider = ProviderRich
  /\ CompileSet # {}

\* the command Clean is to use, without its target
RemoveCommands ==
  IF operatingSystem = windows THEN {<<"del", " ">>, <<"del", " ", " ">>}
  ELSE {<<"rm", " ", "-r", " ">>}

\* C15: for one folder, build mode and operating system, the link step of
\* Build writes <folder>/build/<mode>/<mode>Main ('.exe' added on Windows),
\* the command line of Run is that path, and Clean removes (rm -r, on Windows
\* del) exactly <folder>/build/<mode>/, not the directory of the other mode
\* and not the folder
C15_TasksAgreeOnPaths ==
  LET folder == executed.activeFolder
      buildMode == executed.buildMode
  IN /\ BuildHanded =>
          endsWith(executed.commandLine,
                   <<" ", "-o", " ">> \o ModeExecutable(folder, buildMode))
     /\ executed.name = "runTask" =>
          executed.commandLine = ModeExecutable(folder, buildMode)
     /\ executed.name = "cleanTask" =>
          /\ \E rm \in RemoveCommands :
               executed.commandLine = rm \o ModeDirectory(folder, buildMode)
          /\ \A other \in Builds \ {buildMode} :
               ~endsWith(executed.commandLine, ModeDirectory(folder, other))
          /\ ~endsWith(executed.commandLine, <<" ">> \o folder)
     /\ executed.name # "none" => task.commandLine = executed.commandLine

\* Clean of the release build has been handed over on Windows
C15_Witness ==
  /\ executed.name = "cleanTask"
  /\ executed.buildMode = release
  /\ operatingSystem = windows
  /\ release \in buildDirs

-----------------------------------------------------------------------------
(* Properties of the helpers                                               *)

\* the part of a directory's path below the workspace folder
belowWorkspace(dir) == SubSeq(dir, Len(WorkspaceFolder) + 1, Len(dir))

\* the directory or one of the directories above it, below the workspace
\* folder, is named 'build' or has '.', '__' or 'CMake' in its name
ExcludedFolder(dir) ==
  LET below == belowWorkspace(dir)
  IN \/ \E i \in DOMAIN below :
          /\ below[i] = "build"
          /\ below[i - 1] = "/"
          /\ i = Len(below) \/ below[i + 1] = "/"
     \/ \E i \in DOMAIN below : below[i] \in {".", "__", "CMake"}

\* C16: the list getDirectories returns for the workspace folder holds no
\* directory named 'build', none with '.', '__' or 'CMake' in its name, and
\* nothing below such a directory
C16_FolderExclusion ==
  (returned.name = "getDirectories" /\ returned.value.defined) =>
    \A i \in DOMAIN returned.value.directories :
      ~ExcludedFolder(returned.value.directories[i])

\* a value of the CMake source directory setting other than its default
NonDefault(value) == value # "" /\ value # CmakeDefault

\* some workspace folder holds a CMakeLists.txt
HasCMakeLists ==
  /\ args.workspaceFolders.defined
  /\ \E i \in DOMAIN args.workspaceFolders.folders :
       \E j \in DOMAIN args.workspaceFolders.folders[i].files :
         args.workspaceFolders.folders[i].files[j] = CMakeLists

\* the source directory is set to a non-default value in the settings.json of
\* some workspace folder or in the configuration of the host
HasSourceDirectory ==
  \/ /\ args.workspaceFolders.defined
     /\ \E i \in DOMAIN args.workspaceFolders.folders :
          LET file == args.workspaceFolders.folders[i].settings
          IN /\ file.kind = "json"
             /\ CmakeSettingKey \in DOMAIN file.json
             /\ NonDefault(file.json[CmakeSettingKey])
  \/ /\ "sourceDirectory" \in DOMAIN args.config
     /\ NonDefault(args.config["sourceDirectory"])

\* C17: isCmakeProject() is true exactly when some workspace folder holds a
\* CMakeLists.txt or the CMake source directory is set, in a folder's
\* .vscode/settings.json or in the host configuration, to a value that is not
\* its default '${workspaceFolder}'
C17_CmakeSuppression ==
  returned.name = "isCmakeProject" =>
    (returned.value <=> (HasCMakeLists \/ HasSourceDirectory))

\* running the compiler has failed: no binary, a non-zero exit, no output
DumpFailed ==
  args.execSync.kind # "returned" \/ args.execSync.output = <<>>

\* the machine dump has succeeded and holds '64'
DumpHolds64 ==
  args.execSync.kind = "returned" /\ \E i \in DOMAIN args.execSync.output :
                                       args.execSync.output[i] = "64"

\* the call has run the compiler: every call of the helper, and the provider
\* without MSVC that has a compiler path
CompilerInvoked ==
  \/ args.name = "getArchitecture"
  \/ /\ args.name = "SettingsProvider.getArchitecture"
     /\ ~args.this.useMsvc
     /\ args.this.cCompilerPath # Empty \/ args.this.cppCompilerPath # Empty

\* C18: when running the compiler for the architecture fails the resolved
\* architecture is x86 and nothing is raised, and x64 is resolved only when
\* the machine dump has succeeded and holds '64'
C18_ArchitectureFallback ==
  returned # NoReturn =>
    /\ returned.value \in {x86, x64}
    /\ DumpFailed => returned.value = x86
    /\ returned.value = x64 => DumpHolds64

\* C18 as amended: the same where the compiler is run; the provider resolves
\* x64 without running a compiler when MSVC is in use or no compiler path is set
C18_ArchitectureFallbackWhenInvoked ==
  returned # NoReturn =>
    /\ returned.value \in {x86, x64}
    /\ CompilerInvoked =>
         /\ DumpFailed => returned.value = x86
         /\ returned.value = x64 => DumpHolds64
    /\ ~CompilerInvoked => returned.value = x64

\* the provider has resolved x86 after its compiler exited with an error
C18_Witness ==
  /\ returned.name = "SettingsProvider.getArchitecture"
  /\ CompilerInvoked
  /\ args.execSync = NonZeroExit
  /\ returned.value = x86

-----------------------------------------------------------------------------
(* Properties of the toolchain detection                                   *)

\* the path a command of the PATH is to be stored with
StoredPathOf(command) ==
  IF operatingSystem = windows
  THEN <<"C:", "\\", "mingw64", "\\", "bin", "\\">> \o commandTokens(command) \o <<".exe">>
  ELSE <<"/", "usr", "/", "bin", "/">> \o commandTokens(command)

\* the command of a pair the run has found in the PATH, the one the
\* operating system prefers first: gcc, g++ and gdb, on macOS clang, clang++
\* and lldb; "none" when it found neither
Found(run, command) ==
  \E n \in DOMAIN Commands :
    /\ Commands[n] = command
    /\ n <= Len(checks[run].results)
    /\ checks[run].results[n].found
Preferred(run, gnu, llvm) ==
  LET first == IF operatingSystem = mac THEN llvm ELSE gnu
      second == IF operatingSystem = mac THEN gnu ELSE llvm
  IN IF Found(run, first) THEN first ELSE IF Found(run, second) THEN second ELSE "none"

\* the pairs of candidates, with the setting and the field of each
Pairs ==
  {[gnu |-> "gcc", llvm |-> "clang", key |-> "compilerPathC", field |-> "cCompiler"],
   [gnu |-> "g++", llvm |-> "clang++", key |-> "compilerPathCpp", field |-> "cppCompiler"],
   [gnu |-> "gdb", llvm |-> "lldb", key |-> "debuggerPath", field |-> "debugger"]}

\* the only run of checkCompilers has returned
SingleCheckDone == Len(checks) = 1 /\ checks[1].pc = Returned

\* C20: once checkCompilers has completed, the path of the found candidate of
\* each pair (gcc before clang, g++ before clang++, gdb before lldb; on macOS
\* the other way round) is stored in the workspace settings, and the field of
\* a pair of which neither candidate was found is undefined
C20_ToolchainAutoDetection ==
  SingleCheckDone =>
    \A pair \in Pairs :
      LET command == Preferred(1, pair.gnu, pair.llvm)
      IN IF command = "none"
         THEN fields[pair.field] = "undefined"
         ELSE workspaceConfig[pair.key] = definedString(StoredPathOf(command))

\* the writes of the runs are not interleaved: between two writes of one run
\* there is no write of another
WritesNotInterleaved ==
  \A i, j, k \in DOMAIN writes :
    (i < j /\ j < k /\ writes[i].run = writes[k].run) => writes[j].run = writes[i].run

\* two runs have returned, the later started while the earlier was in flight
OverlappingChecksDone ==
  /\ Len(checks) = 2
  /\ checks[2].inFlight
  /\ \A run \in DOMAIN checks : checks[run].pc = Returned

ConstructionAndDetectionDone ==
  /\ fields.constructed
  /\ ~pathExists(propertiesFile)
  /\ Len(checks) = 1
  /\ checks[1].pc = Returned

\* the command whose path the run has to store under the key, "none" if it
\* found no candidate
DetectedFor(run, key) ==
  IF key = "makePath"
  THEN IF Found(run, "make") THEN "make"
       ELSE IF Len(checks[run].results) > Len(Commands)
               /\ checks[run].results[AwaitsMingw].found THEN MingwMake
       ELSE "none"
  ELSE LET pair == CHOOSE pair \in Pairs : pair.key = key
       IN Preferred(run, pair.gnu, pair.llvm)

-----------------------------------------------------------------------------
(* Further properties of the tasks                                         *)

\* the first piece of a text that is not a blank, "" for a text of blanks
RECURSIVE firstWord(_)
firstWord(text) ==
  IF text = <<>> THEN ""
  ELSE IF Head(text) = " " THEN firstWord(Tail(text))
  ELSE Head(text)

\* C21: when no file of the folder matches its language, a command line the
\* build hands over does not begin with '&&' and has no link sub-command
\* without object files, and the build directory is not created
C21_EmptyCompileSet ==
  Len(Matched) = 0 =>
    /\ buildDirs = {}
    /\ BuildHanded =>
         /\ firstWord(executed.commandLine) # "&&"
         /\ ~endsWith(executed.commandLine,
                      <<" ", " ", "-o", " ">>
                        \o ModeExecutable(executed.activeFolder, executed.buildMode))

\* the piece at the position stands as a token of its own: blanks around it
OwnToken(text, at) ==
  /\ at = 1 \/ text[at - 1] = " "
  /\ at = Len(text) \/ text[at + 1] = " "

\* the argument is a token of its own somewhere in the sub-command
HasArgument(subCommand, argument) ==
  \E at \in DOMAIN subCommand : subCommand[at] = argument /\ OwnToken(subCommand, at)

\* the include path is a token of its own, introduced by the token '-I'
HasInclude(subCommand, includePath) ==
  \E at \in DOMAIN subCommand :
    /\ subCommand[at] = includePath
    /\ OwnToken(subCommand, at)
    /\ at > 2
    /\ subCommand[at - 2] = "-I"
    /\ OwnToken(subCommand, at - 2)

\* the extra arguments of the provider, compiler's and linker's
ExtraArguments ==
  {settingsProvider.compilerArgs[i] : i \in DOMAIN settingsProvider.compilerArgs}
    \cup {settingsProvider.linkerArgs[i] : i \in DOMAIN settingsProvider.linkerArgs}

\* C23: in the command line the build hands over, every sub-command holds each
\* include path of the provider as a blank-delimited token introduced by the
\* token '-I', and each extra compiler or linker argument as a blank-delimited
\* token, none of them fused with the flags before it
C23_ArgumentsAreTokens ==
  BuildHanded =>
    LET subs == subCommands(executed.commandLine)
    IN \A n \in DOMAIN subs :
         subs[n] # <<>> =>
           /\ \A i \in DOMAIN settingsProvider.includePaths :
                HasInclude(subs[n], settingsProvider.includePaths[i])
           /\ \A argument \in ExtraArguments : HasArgument(subs[n], argument)

\* C24: two different matched source files of the folder never have the same
\* object file under build/<mode>/, so that no compile sub-command of the
\* command line handed over writes the object file of another matched file
C24_DistinctObjectFiles ==
  BuildHanded =>
    LET subs == subCommands(executed.commandLine)
        objectOf(i) == ObjectOf(Matched[i], executed.activeFolder, executed.buildMode)
    IN \A i, j \in DOMAIN Matched :
         i # j =>
           /\ objectOf(i) # objectOf(j)
           /\ i <= Len(subs) => ~endsWith(subs[i], <<" ", "-o", " ">> \o objectOf(j))

-----------------------------------------------------------------------------
(* Properties of the executions                                            *)

\* getProcessExecution has returned its execution
ExecutionBuilt == returned # NoReturn /\ returned.name = "getProcessExecution"

\* C25: every execution getProcessExecution builds for a command line runs
\* with the active folder as its working directory, whatever the operating
\* system and whether or not the task is an MSVC build task
C25_RunsInActiveFolder ==
  ExecutionBuilt =>
    /\ returned.value.cwd.defined
    /\ returned.value.cwd.value = args.activeFolder

-----------------------------------------------------------------------------
(* Further properties of the provider                                      *)

\* the last operation was one of the three loads and read the settings
LoadedAgain ==
  /\ pc = "ready" /\ thrown = "none"
  /\ \/ op.name \in {"writeFileData", "changeCallback"}
     \/ op.name = "deleteCallback" /\ getActivationState

\* the step is one of the three loads, reading the settings file as the last
\* operation left it
RepeatsLoad ==
  /\ thrown' = "none"
  /\ extensionState' = extensionState
  /\ \/ op'.name = "writeFileData"
     \/ op'.name = "changeCallback" /\ settingsFile' = settingsFile
     \/ op'.name = "deleteCallback" /\ op'.key = "c_cpp_properties.json" /\ getActivationState

\* C22: a load that follows a load, with the global configuration and the
\* settings file as they were, leaves the include paths of the snapshot and
\* the persisted ones as the first load left them, and the built-in default
\* list of include paths stays empty
C22_LoadsDoNotAccumulate ==
  [][(LoadedAgain /\ RepeatsLoad) =>
       /\ settings'.includePaths = settings.includePaths
       /\ op'.name # "changeCallback" =>
            storedIncludePaths(settingsFile') = settings.includePaths
       /\ DEFAULT_INCLUDE_PATHS' = Empty]_vars

====
